---- MODULE Spec2Model ----
(***************************************************************************)
(* A model of the entity stores of the lessons repository:                 *)
(*   - lesson 14, TaskStore (a map and a counter behind a sync.RWMutex),   *)
(*     called by any number of goroutines;                                 *)
(*   - lesson 14, the package-level users slice of the first web server;   *)
(*   - lesson 14, the TaskServer handlers on top of the TaskStore;         *)
(*   - lesson 12, UserService (a map and a counter without a lock) and     *)
(*     its two handlers;                                                   *)
(*   - lesson 12, package bank (Account);                                  *)
(*   - lesson 12, AuthService.Register on a table with a UNIQUE email.     *)
(***************************************************************************)
EXTENDS Naturals, Integers, Sequences, FiniteSets, TLC

\* ------------------------------------------------------------------ bounds
\* number of goroutines calling one store
NumProcs == 2
\* Create is called while nextID <= MaxTasks (caps the counter)
MaxTasks == 2
\* the calls that queue for the lock in the fair specification
MaxCalls == 2
\* the requests the task server accepts (caps the run)
MaxTaskReqs == 3
\* lesson 12 bank: the accounts made, the largest amount passed, and the
\* balance above which nothing more is paid in
NumAccts == 2
MaxAmount == 2
MaxBalance == 3
\* lesson 18: the longest list of middlewares passed to Chain
MaxChain == 4
\* transferMoney: the balance above which no row is credited any more
MaxTxBalance == 3
\* BlogService: the number of ids the posts and comments sequences hand out
MaxBlogRows == 3
\* TaskManager: the rows of tasks.csv, the length of tm.tasks, and the width of
\* Go's int in bits (a small stand-in for 64)
MaxRows == 2
MaxCsvTasks == 3
IntBits == 5

Procs == 1..NumProcs
\* identifiers callers pass to Get, Update and Delete
IDs == 1..MaxTasks
\* the readings time.Now() can give
Times == {1, 2}

\* ------------------------------------------------------------ Task values
\* type Task; time.Time is a number, 0 the zero time
ZeroTask ==
    [ID |-> 0, Title |-> "", Description |-> "", Completed |-> FALSE,
     CreatedAt |-> 0, DueDate |-> 0, Priority |-> ""]

\* the Task values callers pass to Create and Update (decoded request bodies)
TaskInputs ==
    { [ID |-> 0, Title |-> "a", Description |-> "", Completed |-> FALSE,
       CreatedAt |-> 0, DueDate |-> 0, Priority |-> ""],
      [ID |-> 1, Title |-> "b", Description |-> "d", Completed |-> TRUE,
       CreatedAt |-> 9, DueDate |-> 8, Priority |-> "high"] }

VARIABLES
    tasks,      \* TaskStore.tasks: map[int]Task, a function on its keys
    nextID,     \* TaskStore.nextID
    mu,         \* TaskStore.RWMutex: [writer: 0 or the goroutine in Lock, readerCount]
    g,          \* per goroutine: position in a TaskStore method and its locals
    createdIDs, \* history: the identifiers Create returned, in order
    delCount,   \* history: per identifier, how many Delete calls returned true
    lastOp,     \* history: per identifier, the last write to its map entry
    lin         \* history: the store as the last Lock found it or Unlock left it

VARIABLES
    users,      \* lesson 14, first server: the package-level users slice
    resp        \* lesson 14, first server: the response to the last request

VARIABLES
    svc,        \* lesson 12 UserService: [users: map[int]User, nextID]
    h,          \* lesson 12: per goroutine, position in a request and its locals
    svcCreated, \* history: the users CreateUserHandler answered 201 with, in order
    reqs,       \* history: the number of requests accepted so far
    crashed     \* the runtime stopped the process (concurrent map writes)

VARIABLES
    calls       \* history: the number of TaskStore calls that had to queue for the lock

storeVars == <<tasks, nextID, mu, g, createdIDs, delCount, lastOp, lin>>
usersVars == <<users, resp>>
svcVars == <<svc, h, svcCreated, reqs, crashed>>
VARIABLES
    accounts,   \* lesson 12 bank: the balance of every Account made so far
    bres        \* history: the last bank call, its result and the balances before it

VARIABLES
    db,         \* lesson 12 AuthService: the users table and its id sequence
    reg,        \* per goroutine: position in Register and its locals
    registered  \* history: the users Register returned with a nil error, in order

VARIABLES
    th,         \* lesson 14 TaskServer: per goroutine, position in a handler and its locals
    tresp,      \* lesson 14 TaskServer: the last response, with the request it answers
    treqs       \* history: the number of requests the task server has accepted

VARIABLES
    mw,         \* a request on its way through a middleware chain, and its response
    urole       \* role-based auth: the role column of the users table, by id

VARIABLES
    acct,       \* lesson on SQL: the committed balance column of accounts, by id
    tx,         \* transferMoney: its position, arguments and the transaction's own view
    txres       \* history: the last transferMoney call, its result and the balances before

VARIABLES
    posts,      \* blog: the committed rows of posts, by id
    comments,   \* blog: the committed rows of comments, [id, post_id]
    seqs,       \* blog: the last value of the posts and the comments id sequences
    btx,        \* CreatePostWithInitialComment: its position, *post, *comment and its view
    blogres     \* history: the last call, if it was CreatePostWithInitialComment:
                \* its result and the tables before it

VARIABLES
    tm,         \* the CSV TaskManager: tasks, nextID and whether LoadTasks has run
    tmres       \* history: the last TaskManager call, its result and the tasks before

bankVars == <<accounts, bres>>
csvVars == <<tm, tmres>>
blogVars == <<posts, comments, seqs, btx, blogres>>
chainVars == <<mw, urole>>
txVars == <<acct, tx, txres>>
authVars == <<db, reg, registered>>
serverVars == <<th, tresp, treqs>>
\* the state of the programs other than the TaskStore
otherVars == <<usersVars, svcVars, bankVars, authVars, chainVars, txVars, blogVars,
      csvVars>>
vars == <<storeVars, calls, serverVars, otherVars>>
\* what a TaskStore step leaves alone
notStore == <<calls, serverVars, otherVars>>
\* what a step of the first lesson 14 server leaves alone
notUsers == <<storeVars, calls, serverVars, svcVars, bankVars, authVars, chainVars, txVars,
      blogVars, csvVars>>
\* what a step of the lesson 12 server leaves alone
notSvc == <<storeVars, calls, serverVars, usersVars, bankVars, authVars, chainVars, txVars,
      blogVars, csvVars>>
\* what a call of the bank package leaves alone
notBank == <<storeVars, calls, serverVars, usersVars, svcVars, authVars, chainVars, txVars,
      blogVars, csvVars>>
\* what a step of AuthService leaves alone
notAuth == <<storeVars, calls, serverVars, usersVars, svcVars, bankVars, chainVars, txVars,
      blogVars, csvVars>>
\* what a step of a middleware chain leaves alone
notChain == <<storeVars, calls, serverVars, usersVars, svcVars, bankVars, authVars, txVars,
      blogVars, csvVars>>

\* what a step of transferMoney leaves alone
notTx == <<storeVars, calls, serverVars, usersVars, svcVars, bankVars, authVars, chainVars,
      blogVars, csvVars>>

\* what a step of BlogService leaves alone
notBlog ==
    <<storeVars, calls, serverVars, usersVars, svcVars, bankVars, authVars, chainVars,
      txVars, csvVars>>

\* what a TaskManager method leaves alone
notCsv ==
    <<storeVars, calls, serverVars, usersVars, svcVars, bankVars, authVars, chainVars,
      txVars, blogVars>>

\* a goroutine outside every TaskStore method
\* (arg: the Task the caller passed; task: the method's Task variable; list: the
\* returned slice as a bag, its order being the map's iteration order)
Idle == [pc |-> "idle", id |-> 0, arg |-> ZeroTask, task |-> ZeroTask, ok |-> FALSE,
         flag |-> FALSE, list |-> <<>>]

NoOp == [kind |-> "none", task |-> ZeroTask]

\* NewTaskStore
NewTaskStore ==
    /\ tasks = <<>>
    /\ nextID = 1

InitStore ==
    /\ NewTaskStore
    /\ mu = [writer |-> 0, readerCount |-> 0]
    /\ g = [p \in Procs |-> Idle]
    /\ calls = 0
    /\ createdIDs = <<>>
    /\ delCount = [i \in IDs |-> 0]
    /\ lastOp = [i \in IDs |-> NoOp]
    /\ lin = [tasks |-> <<>>, nextID |-> 1]

\* ------------------------------------------------------------ sync.RWMutex
\* a plausible slip: a method that takes no lock at all
NoLock == TRUE

\* Lock first takes the writers' mutex: no other goroutine is in Lock or holds it
WriterFree == mu.writer = 0

\* a plausible slip: a writing method that takes only the shared lock
SharedOnly == TRUE

\* Lock then waits until the active readers have left
ReadersGone == mu.readerCount = 0

\* RLock waits while a writer is pending or active
NoWriter == mu.writer = 0

\* ts.Lock(), first half: p, at position `from`, announces itself as the
\* writer; the call's arguments are id and t
BeginLockAt(p, from, at, id, t) ==
    /\ g[p].pc = from
    /\ WriterFree
    /\ mu' = [mu EXCEPT !.writer = p]
    /\ g' = [g EXCEPT ![p] = [Idle EXCEPT !.pc = at, !.id = id, !.arg = t, !.task = t]]
    /\ UNCHANGED <<tasks, nextID, createdIDs, delCount, lastOp, lin, notStore>>

\* ts.Lock(), first half, as the first step of a call
BeginLock(p, at, id, t) == BeginLockAt(p, "idle", at, id, t)

\* the first statement after ts.Lock() in Create, Update and Delete
Body == [c_lock |-> "c1", u_lock |-> "u1", d_lock |-> "d1"]

\* ts.Lock(), second half: the readers are gone, p enters the method body
Lock(p) ==
    /\ g[p].pc \in DOMAIN Body
    /\ ReadersGone
    /\ g' = [g EXCEPT ![p].pc = Body[g[p].pc]]
    /\ lin' = [tasks |-> tasks, nextID |-> nextID]
    /\ UNCHANGED <<tasks, nextID, mu, createdIDs, delCount, lastOp, notStore>>

\* a plausible slip: Unlock called at the end of the method and not deferred,
\* so the early not-found returns keep the lock
ReleasedAtEnd(p) ==
    IF g[p].pc \in {"u_ret", "d_ret"} /\ ~g[p].ok THEN mu ELSE [mu EXCEPT !.writer = 0]

\* the mutex after the deferred ts.Unlock(), on every return path
Released(p) == [mu EXCEPT !.writer = 0]

\* defer ts.Unlock(): the method returns and the goroutine goes on as `after`
UnlockTo(p, after) ==
    /\ g[p].pc \in {"c_ret", "u_ret", "d_ret"}
    /\ mu' = Released(p)
    /\ g' = [g EXCEPT ![p] = after]
    /\ lin' = [tasks |-> tasks, nextID |-> nextID]
    /\ UNCHANGED <<tasks, nextID, createdIDs, delCount, lastOp, notStore>>

\* the goroutine is free for its next call
Unlock(p) == UnlockTo(p, Idle)

\* ts.RLock(): p, at position `from`, becomes an active reader
RLockAt(p, from) ==
    /\ g[p].pc = from
    /\ NoWriter
    /\ mu' = [mu EXCEPT !.readerCount = @ + 1]

\* ts.RLock() as the first step of a call
RLock(p) == RLockAt(p, "idle")

\* defer ts.RUnlock(): the method returns
RUnlock(p) ==
    /\ g[p].pc \in {"g_ret", "ga_ret", "gs_ret"}
    /\ mu' = [mu EXCEPT !.readerCount = @ - 1]
    /\ g' = [g EXCEPT ![p] = Idle]
    /\ UNCHANGED <<tasks, nextID, createdIDs, delCount, lastOp, lin, notStore>>

\* ------------------------------------------------------- map[int]Task helpers
\* ts.tasks[k] = t
Put(m, k, t) == [i \in (DOMAIN m) \cup {k} |-> IF i = k THEN t ELSE m[i]]
\* delete(ts.tasks, k)
Remove(m, k) == [i \in (DOMAIN m) \ {k} |-> m[i]]
\* the slice a range over the keys ks of m appends to, as a bag of Tasks
Slice(m, ks) ==
    [t \in {m[k] : k \in ks} |-> Cardinality({k \in ks : m[k] = t})]

\* ------------------------------------------------------------ TaskStore.Create
\* a plausible slip: the identifier taken from the number of stored tasks
CreateIDFromLen == Cardinality(DOMAIN tasks) + 1

\* the value of ts.nextID that Create reads
CreateID == nextID

\* a call of Create: ts.Lock() begins
Create(p) == \E t \in TaskInputs : BeginLock(p, "c_lock", 0, t)

CallCreate(p) ==
    /\ nextID <= MaxTasks
    /\ Create(p)

\* task.ID = ts.nextID; task.CreatedAt = time.Now()
CreateAssign(p) ==
    /\ g[p].pc = "c1"
    /\ \E now \in Times :
         g' = [g EXCEPT ![p].pc = "c2", ![p].task.ID = CreateID,
                        ![p].task.CreatedAt = now]
    /\ UNCHANGED <<tasks, nextID, mu, createdIDs, delCount, lastOp, lin, notStore>>

\* a plausible slip: the caller's value stored, as it was before the assignments
CreateValueStale(p) == g[p].arg

\* the value Create stores: its task variable after the assignments
CreateValue(p) == g[p].task

\* ts.tasks[task.ID] = task
CreateStore(p) ==
    /\ g[p].pc = "c2"
    /\ tasks' = Put(tasks, g[p].task.ID, CreateValue(p))
    /\ lastOp' = [i \in DOMAIN lastOp \cup {g[p].task.ID} |->
                    IF i = g[p].task.ID
                    THEN [kind |-> "create", task |-> g[p].arg]
                    ELSE lastOp[i]]
    /\ g' = [g EXCEPT ![p].pc = "c3"]
    /\ UNCHANGED <<nextID, mu, createdIDs, delCount, lin, notStore>>

\* a plausible slip: the counter left as it was
IncrementSkipped == nextID

\* the counter after ts.nextID++
Incremented == nextID + 1

\* ts.nextID++; return task
CreateIncr(p) ==
    /\ g[p].pc = "c3"
    /\ nextID' = Incremented
    /\ createdIDs' = Append(createdIDs, g[p].task.ID)
    /\ g' = [g EXCEPT ![p].pc = "c_ret", ![p].ok = TRUE]
    /\ UNCHANGED <<tasks, mu, delCount, lastOp, lin, notStore>>

\* ------------------------------------------------------------ TaskStore.Get
\* ts.RLock(); task, exists := ts.tasks[id]; return task, exists
\* (one step: a read under the shared lock; the deferred RUnlock is the next)
GetRead(p, from, id) ==
    /\ RLockAt(p, from)
    /\ g' = [g EXCEPT ![p] = [Idle EXCEPT
                !.pc = "g_ret", !.id = id,
                !.task = IF id \in DOMAIN tasks THEN tasks[id] ELSE ZeroTask,
                !.ok = id \in DOMAIN tasks]]
    /\ UNCHANGED <<tasks, nextID, createdIDs, delCount, lastOp, lin, notStore>>

Get(p) == \E id \in IDs : GetRead(p, "idle", id)

\* ------------------------------------------------------------ TaskStore.GetAll
\* ts.RLock(); for _, task := range ts.tasks { tasks = append(tasks, task) }
GetAllRead(p, from) ==
    /\ RLockAt(p, from)
    /\ g' = [g EXCEPT ![p] = [Idle EXCEPT !.pc = "ga_ret",
                                         !.list = Slice(tasks, DOMAIN tasks)]]
    /\ UNCHANGED <<tasks, nextID, createdIDs, delCount, lastOp, lin, notStore>>

GetAll(p) == GetAllRead(p, "idle")

\* -------------------------------------------------------- TaskStore.GetByStatus
\* a plausible slip: the comparison turned round
MatchingOther(c) == {k \in DOMAIN tasks : tasks[k].Completed # c}

\* the keys GetByStatus keeps: if task.Completed == completed
Matching(c) == {k \in DOMAIN tasks : tasks[k].Completed = c}

\* ts.RLock(); for _, task := range ts.tasks { if task.Completed == completed {...} }
GetByStatusRead(p, from, c) ==
    /\ RLockAt(p, from)
    /\ g' = [g EXCEPT ![p] = [Idle EXCEPT
                !.pc = "gs_ret", !.flag = c,
                !.list = Slice(tasks, Matching(c))]]
    /\ UNCHANGED <<tasks, nextID, createdIDs, delCount, lastOp, lin, notStore>>

GetByStatus(p) == \E c \in BOOLEAN : GetByStatusRead(p, "idle", c)

\* ------------------------------------------------------------ TaskStore.Update
CallUpdate(p) == \E id \in IDs, t \in TaskInputs : BeginLock(p, "u_lock", id, t)

\* a plausible slip: the caller's ID field kept
UpdateIDFromBody(p) == g[p].task.ID

\* the identifier Update writes into the stored value: updated.ID = id
UpdateID(p) == g[p].id

\* a plausible slip: no existence check, Update inserts
UpdateAlways(p) == TRUE

\* if _, exists := ts.tasks[id]; !exists { return Task{}, false }
UpdateExists(p) == g[p].id \in DOMAIN tasks

UpdateCheck(p) ==
    /\ g[p].pc = "u1"
    /\ IF UpdateExists(p)
       THEN g' = [g EXCEPT ![p].pc = "u2"]
       ELSE g' = [g EXCEPT ![p].pc = "u_ret", ![p].task = ZeroTask, ![p].ok = FALSE]
    /\ UNCHANGED <<tasks, nextID, mu, createdIDs, delCount, lastOp, lin, notStore>>

\* updated.ID = id; ts.tasks[id] = updated; return updated, true
UpdateStore(p) ==
    /\ g[p].pc = "u2"
    /\ LET updated == [g[p].task EXCEPT !.ID = UpdateID(p)] IN
         /\ tasks' = Put(tasks, g[p].id, updated)
         /\ g' = [g EXCEPT ![p].pc = "u_ret", ![p].task = updated, ![p].ok = TRUE]
    /\ lastOp' = [lastOp EXCEPT ![g[p].id] = [kind |-> "update", task |-> g[p].arg]]
    /\ UNCHANGED <<nextID, mu, createdIDs, delCount, lin, notStore>>

\* ------------------------------------------------------------ TaskStore.Delete
CallDelete(p) == \E id \in IDs : BeginLock(p, "d_lock", id, ZeroTask)

\* if _, exists := ts.tasks[id]; exists {
DeleteCheck(p) ==
    /\ g[p].pc = "d1"
    /\ IF g[p].id \in DOMAIN tasks
       THEN g' = [g EXCEPT ![p].pc = "d2"]
       ELSE g' = [g EXCEPT ![p].pc = "d_ret", ![p].ok = FALSE]
    /\ UNCHANGED <<tasks, nextID, mu, createdIDs, delCount, lastOp, lin, notStore>>

\* a plausible slip: the entry is left in the map
DeletedNothing(p) == tasks

\* the map after delete(ts.tasks, id)
Deleted(p) == Remove(tasks, g[p].id)

\* delete(ts.tasks, id); return true
DeleteRemove(p) ==
    /\ g[p].pc = "d2"
    /\ tasks' = Deleted(p)
    /\ g' = [g EXCEPT ![p].pc = "d_ret", ![p].ok = TRUE]
    /\ delCount' = [delCount EXCEPT ![g[p].id] = @ + 1]
    /\ lastOp' = [lastOp EXCEPT ![g[p].id] = [kind |-> "delete", task |-> ZeroTask]]
    /\ UNCHANGED <<nextID, mu, createdIDs, lin, notStore>>

\* ------------------------------------------------------------ lesson 14: users
\* POST is served while the slice holds fewer than MaxUsers users
MaxUsers == 4

\* var users = []User{...}
SeedUsers ==
    << [ID |-> 1, Name |-> "Anna", Email |-> "anna@example.com"],
       [ID |-> 2, Name |-> "Petr", Email |-> "petr@example.com"],
       [ID |-> 3, Name |-> "Maria", Email |-> "maria@example.com"] >>

\* the request bodies that decode to a User
UserBodies ==
    { [ID |-> 0, Name |-> "n", Email |-> "n@example.com"],
      [ID |-> 1, Name |-> "m", Email |-> ""] }
\* a body that is not JSON
BadJSON == [ID |-> -1, Name |-> "{", Email |-> ""]
\* a request without a body
NoBody == [ID |-> -1, Name |-> "", Email |-> ""]
\* the bodies sent with a method: only POST and PUT handlers read the body
Bodies(method) ==
    IF method \in {"POST", "PUT"} THEN UserBodies \cup {BadJSON} ELSE {NoBody}

\* the path segments after /api/users/: a decimal number or something else
PathIDs == [digits : {TRUE}, n : 1..(MaxUsers + 1)] \cup {[digits |-> FALSE, n |-> 0]}

Methods == {"GET", "POST", "PUT", "DELETE", "PATCH"}

InitUsers ==
    /\ users = SeedUsers
    /\ resp = [status |-> 0, body |-> <<>>]

\* strconv.Atoi on a path segment
Atoi(seg) == IF seg.digits THEN [err |-> FALSE, val |-> seg.n] ELSE [err |-> TRUE, val |-> 0]

\* json.NewDecoder(r.Body).Decode(&u)
Decode(body) == IF body = BadJSON THEN [err |-> TRUE, val |-> body] ELSE [err |-> FALSE, val |-> body]

\* the index of the first user with this ID, 0 when there is none
\* (for i := range users { if users[i].ID == id { ...; break } })
FirstIndex(us, id) ==
    IF \E i \in DOMAIN us : us[i].ID = id
    THEN CHOOSE i \in DOMAIN us : us[i].ID = id /\ \A j \in 1..(i - 1) : us[j].ID # id
    ELSE 0

\* append(users[:i], users[i+1:]...), i counted from 1
RemoveAt(us, i) == SubSeq(us, 1, i - 1) \o SubSeq(us, i + 1, Len(us))

\* newUser.ID = len(users) + 1
NewUserID == Len(users) + 1

\* apiUsersHandler: /api/users
apiUsersHandler(method, body) ==
    /\ method = "POST" => Len(users) < MaxUsers
    /\ CASE method = "GET" ->
              /\ resp' = [status |-> 200, body |-> users]
              /\ UNCHANGED users
         [] method = "POST" ->
              IF Decode(body).err
              THEN /\ resp' = [status |-> 400, body |-> <<>>]
                   /\ UNCHANGED users
              ELSE LET newUser == [Decode(body).val EXCEPT !.ID = NewUserID] IN
                     /\ users' = Append(users, newUser)
                     /\ resp' = [status |-> 201, body |-> <<newUser>>]
         [] OTHER ->
              /\ resp' = [status |-> 405, body |-> <<>>]
              /\ UNCHANGED users
    /\ UNCHANGED notUsers

\* apiUserHandler: /api/users/{id}
apiUserHandler(seg, method, body) ==
    /\ LET id == Atoi(seg).val
           found == FirstIndex(users, id)
       IN
       IF Atoi(seg).err
       THEN /\ resp' = [status |-> 400, body |-> <<>>]
            /\ UNCHANGED users
       ELSE IF found = 0
       THEN /\ resp' = [status |-> 404, body |-> <<>>]
            /\ UNCHANGED users
       ELSE CASE method = "GET" ->
                   /\ resp' = [status |-> 200, body |-> <<users[found]>>]
                   /\ UNCHANGED users
              [] method = "PUT" ->
                   IF Decode(body).err
                   THEN /\ resp' = [status |-> 400, body |-> <<>>]
                        /\ UNCHANGED users
                   ELSE LET updatedUser == [Decode(body).val EXCEPT !.ID = id] IN
                          /\ users' = [users EXCEPT ![found] = updatedUser]
                          /\ resp' = [status |-> 200, body |-> <<updatedUser>>]
              [] method = "DELETE" ->
                   /\ users' = RemoveAt(users, found)
                   /\ resp' = [status |-> 204, body |-> <<>>]
              [] OTHER ->
                   /\ resp' = [status |-> 405, body |-> <<>>]
                   /\ UNCHANGED users
    /\ UNCHANGED notUsers

\* ------------------------------------------------------------ lesson 12: UserService
\* the requests the server accepts (caps the run)
MaxReqs == 2

ZeroUser == [ID |-> 0, Name |-> "", Email |-> ""]

\* a goroutine of the HTTP server with no request
\* (fn, method: the handler and the request method; bad, name, email: the
\* decoded body; param, id: the id query parameter and its value)
NoParam == [present |-> FALSE, digits |-> FALSE, n |-> 0]
HIdle == [pc |-> "idle", fn |-> "", method |-> "", bad |-> FALSE, name |-> "",
          email |-> "", param |-> NoParam, id |-> 0, user |-> ZeroUser,
          tmp |-> 0, status |-> 0]

\* NewHandler, NewUserService
InitSvc ==
    /\ svc = [users |-> <<>>, nextID |-> 1]
    /\ h = [p \in Procs |-> HIdle]
    /\ svcCreated = <<>>
    /\ reqs = 0
    /\ crashed = FALSE

\* the decoded bodies of POST requests: [name, email]; bad: not JSON
CreateRequests ==
    [bad : {FALSE}, name : {"", "a", "b"}, email : {"", "e"}]
        \cup {[bad |-> TRUE, name |-> "", email |-> ""]}

\* CreateUserHandler up to the call of CreateUser: method, JSON and field checks
CreateUserHandler(p) ==
    /\ ~crashed /\ h[p].pc = "idle" /\ reqs < MaxReqs
    /\ reqs' = reqs + 1
    /\ \E method \in {"POST", "GET"}, r \in CreateRequests :
         LET req == [HIdle EXCEPT !.fn = "create", !.method = method]
             dec == [req EXCEPT !.bad = r.bad, !.name = r.name, !.email = r.email]
         IN  h' = [h EXCEPT ![p] =
                     IF method # "POST" THEN [req EXCEPT !.pc = "resp", !.status = 405]
                     ELSE IF r.bad THEN [dec EXCEPT !.pc = "resp", !.status = 400]
                     ELSE IF r.name = "" \/ r.email = ""
                          THEN [dec EXCEPT !.pc = "resp", !.status = 400]
                     ELSE [dec EXCEPT !.pc = "cu1"]]
    /\ UNCHANGED <<svc, svcCreated, crashed, notSvc>>

\* CreateUser: user := User{ID: s.nextID, Name: name, Email: email}
CreateUserNew(p) ==
    /\ ~crashed /\ h[p].pc = "cu1"
    /\ h' = [h EXCEPT ![p].pc = "cu2",
                      ![p].user = [ID |-> svc.nextID, Name |-> h[p].name,
                                   Email |-> h[p].email]]
    /\ UNCHANGED <<svc, svcCreated, reqs, crashed, notSvc>>

\* CreateUser: s.users[s.nextID] = user
CreateUserPut(p) ==
    /\ ~crashed /\ h[p].pc = "cu2"
    /\ svc' = [svc EXCEPT !.users = Put(svc.users, svc.nextID, h[p].user)]
    /\ h' = [h EXCEPT ![p].pc = "cu3"]
    /\ UNCHANGED <<svcCreated, reqs, crashed, notSvc>>

\* two goroutines write the map at once: the runtime may end the process
\* (fatal error: concurrent map writes)
ConcurrentMapWrites ==
    /\ ~crashed
    /\ \E p, q \in Procs : p # q /\ h[p].pc = "cu2" /\ h[q].pc = "cu2"
    /\ crashed' = TRUE
    /\ UNCHANGED <<svc, h, svcCreated, reqs, notSvc>>

\* CreateUser: s.nextID++, the read
CreateUserLoad(p) ==
    /\ ~crashed /\ h[p].pc = "cu3"
    /\ h' = [h EXCEPT ![p].pc = "cu4", ![p].tmp = svc.nextID]
    /\ UNCHANGED <<svc, svcCreated, reqs, crashed, notSvc>>

\* CreateUser: s.nextID++, the write; return user
CreateUserIncr(p) ==
    /\ ~crashed /\ h[p].pc = "cu4"
    /\ svc' = [svc EXCEPT !.nextID = h[p].tmp + 1]
    /\ h' = [h EXCEPT ![p].pc = "cu5", ![p].tmp = 0]
    /\ UNCHANGED <<svcCreated, reqs, crashed, notSvc>>

\* CreateUserHandler after CreateUser: w.WriteHeader(http.StatusCreated); Encode(user)
CreateUserCreated(p) ==
    /\ ~crashed /\ h[p].pc = "cu5"
    /\ h' = [h EXCEPT ![p].pc = "resp", ![p].status = 201]
    /\ svcCreated' = Append(svcCreated, h[p].user)
    /\ UNCHANGED <<svc, reqs, crashed, notSvc>>

\* the id query parameters of GET requests: a number, a text, or none
GetParams ==
    [present : {TRUE}, digits : {TRUE}, n : 1..MaxReqs]
        \cup {[present |-> TRUE, digits |-> FALSE, n |-> 0], NoParam}

\* r.URL.Query().Get("id"): the value, or "" when the parameter is missing
QueryGet(param) ==
    IF param.present THEN [digits |-> param.digits, n |-> param.n]
    ELSE [digits |-> FALSE, n |-> 0]

\* GetUserHandler up to the call of GetUser: method check, strconv.Atoi
GetUserHandler(p) ==
    /\ ~crashed /\ h[p].pc = "idle" /\ reqs < MaxReqs
    /\ reqs' = reqs + 1
    /\ \E method \in {"POST", "GET"}, param \in GetParams :
         LET req == [HIdle EXCEPT !.fn = "get", !.method = method, !.param = param]
             id == Atoi(QueryGet(param))
         IN  h' = [h EXCEPT ![p] =
                     IF method # "GET" THEN [req EXCEPT !.pc = "resp", !.status = 405]
                     ELSE IF id.err THEN [req EXCEPT !.pc = "resp", !.status = 400]
                     ELSE [req EXCEPT !.pc = "gu1", !.id = id.val]]
    /\ UNCHANGED <<svc, svcCreated, crashed, notSvc>>

\* a plausible slip: the exists result not looked at
UserAlwaysExists(id) == TRUE

\* user, exists := s.users[id]: exists
UserExists(id) == id \in DOMAIN svc.users

\* user, exists := s.users[id]: user, the zero User when there is none
UserAt(id) == IF id \in DOMAIN svc.users THEN svc.users[id] ELSE ZeroUser

\* GetUser and the rest of GetUserHandler: 404, or the user with the implicit 200
GetUser(p) ==
    /\ ~crashed /\ h[p].pc = "gu1"
    /\ h' = [h EXCEPT ![p].pc = "resp",
                      ![p].user = IF UserExists(h[p].id) THEN UserAt(h[p].id) ELSE ZeroUser,
                      ![p].status = IF UserExists(h[p].id) THEN 200 ELSE 404]
    /\ UNCHANGED <<svc, svcCreated, reqs, crashed, notSvc>>

\* one goroutine reads the map while another writes it: the runtime may end
\* the process (fatal error: concurrent map read and map write)
ConcurrentMapReadWrite ==
    /\ ~crashed
    /\ \E p, q \in Procs : h[p].pc = "gu1" /\ h[q].pc = "cu2"
    /\ crashed' = TRUE
    /\ UNCHANGED <<svc, h, svcCreated, reqs, notSvc>>

\* the handler returns, the response is sent
HandlerReturn(p) ==
    /\ ~crashed /\ h[p].pc = "resp"
    /\ h' = [h EXCEPT ![p] = HIdle]
    /\ UNCHANGED <<svc, svcCreated, reqs, crashed, notSvc>>

\* ------------------------------------------------------ lesson 12: package bank
\* float64 amounts and balances are whole numbers here (no rounding, no NaN, no
\* infinity); a negative one stands for every amount < 0
Amounts == (0 - 1)..MaxAmount
ErrInsufficientFunds == "insufficient funds"
ErrInvalidAmount == "invalid amount"
Nil == "nil"

NoCall == [op |-> "none", a |-> 0, to |-> 0, amount |-> 0, err |-> Nil, before |-> <<>>]

InitBank ==
    /\ accounts = <<>>
    /\ bres = NoCall

\* a plausible slip: the initial balance not checked
NeverNegative(initialBalance) == FALSE

\* if initialBalance < 0 { return nil, ErrInvalidAmount }
NegativeBalance(initialBalance) == initialBalance < 0

\* NewAccount(owner, initialBalance)
NewAccount(initialBalance) ==
    /\ Len(accounts) < NumAccts
    /\ IF NegativeBalance(initialBalance)
       THEN /\ accounts' = accounts
            /\ bres' = [NoCall EXCEPT !.op = "new", !.amount = initialBalance,
                                       !.err = ErrInvalidAmount, !.before = accounts]
       ELSE /\ accounts' = Append(accounts, initialBalance)
            /\ bres' = [NoCall EXCEPT !.op = "new", !.a = Len(accounts) + 1,
                                       !.amount = initialBalance, !.before = accounts]
    /\ UNCHANGED notBank

\* a plausible slip: a deposit of one unit refused as well
DepositRefusesOne(amount) == amount <= 1

\* if amount <= 0 { return ErrInvalidAmount } in Deposit
DepositInvalid(amount) == amount <= 0

\* Deposit on a balance: the error returned and the balance left
DepositOn(balance, amount) ==
    IF DepositInvalid(amount)
    THEN [err |-> ErrInvalidAmount, balance |-> balance]
    ELSE [err |-> Nil, balance |-> balance + amount]

\* a plausible slip: >= for >, the whole balance cannot be withdrawn
InsufficientAtBalance(balance, amount) == amount >= balance

\* if amount > a.balance { return ErrInsufficientFunds }
Insufficient(balance, amount) == amount > balance

\* Withdraw on a balance: the error returned and the balance left
WithdrawOn(balance, amount) ==
    IF amount <= 0
    THEN [err |-> ErrInvalidAmount, balance |-> balance]
    ELSE IF Insufficient(balance, amount)
         THEN [err |-> ErrInsufficientFunds, balance |-> balance]
         ELSE [err |-> Nil, balance |-> balance - amount]

\* a.Deposit(amount)
Deposit(a, amount) ==
    /\ a \in DOMAIN accounts
    /\ accounts[a] + amount <= MaxBalance
    /\ LET r == DepositOn(accounts[a], amount) IN
         /\ accounts' = [accounts EXCEPT ![a] = r.balance]
         /\ bres' = [NoCall EXCEPT !.op = "deposit", !.a = a, !.amount = amount,
                                    !.err = r.err, !.before = accounts]
    /\ UNCHANGED notBank

\* a.Withdraw(amount)
Withdraw(a, amount) ==
    /\ a \in DOMAIN accounts
    /\ LET r == WithdrawOn(accounts[a], amount) IN
         /\ accounts' = [accounts EXCEPT ![a] = r.balance]
         /\ bres' = [NoCall EXCEPT !.op = "withdraw", !.a = a, !.amount = amount,
                                    !.err = r.err, !.before = accounts]
    /\ UNCHANGED notBank

\* a.Transfer(amount, to): a.Withdraw(amount), and to.Deposit(amount) if that
\* went through; to may be a itself
Transfer(a, amount, to) ==
    /\ a \in DOMAIN accounts /\ to \in DOMAIN accounts
    /\ accounts[to] + amount <= MaxBalance
    /\ LET w == WithdrawOn(accounts[a], amount)
           afterW == [accounts EXCEPT ![a] = w.balance]
           dp == DepositOn(afterW[to], amount)
       IN  /\ accounts' = IF w.err # Nil THEN afterW
                          ELSE [afterW EXCEPT ![to] = dp.balance]
           /\ bres' = [NoCall EXCEPT !.op = "transfer", !.a = a, !.to = to,
                                      !.amount = amount, !.before = accounts,
                                      !.err = IF w.err # Nil THEN w.err ELSE dp.err]
    /\ UNCHANGED notBank

\* --------------------------------------------------- lesson 12: AuthService
\* the email addresses callers register
Emails == {"a@x", "b@x"}
ErrExists == "user already exists"
ErrCreate == "failed to create user: duplicate key value violates unique constraint"
NoUser == [ID |-> 0, Email |-> ""]
RIdle == [pc |-> "idle", email |-> "", err |-> Nil, user |-> NoUser]

\* Init: CREATE TABLE IF NOT EXISTS users (id SERIAL PRIMARY KEY, email ... UNIQUE)
InitAuth ==
    /\ db = [users |-> {}, seq |-> 0]
    /\ reg = [p \in Procs |-> RIdle]
    /\ registered = <<>>

\* a plausible slip: the email column declared without UNIQUE
NoUniqueIndex(email) == FALSE

\* a row with this email is in the table
EmailTaken(email) == \E u \in db.users : u.Email = email

\* SELECT id FROM users WHERE email = $1, and the two ifs after it
RegisterSelect(p) ==
    /\ reg[p].pc = "idle"
    /\ \E email \in Emails :
          reg' = [reg EXCEPT ![p] =
                    IF \E u \in db.users : u.Email = email
                    THEN [RIdle EXCEPT !.pc = "r_ret", !.email = email, !.err = ErrExists]
                    ELSE [RIdle EXCEPT !.pc = "r_insert", !.email = email]]
    /\ UNCHANGED <<db, registered, notAuth>>

\* bcrypt.GenerateFromPassword (touches no shared state), then
\* INSERT INTO users ... RETURNING id: the sequence is advanced for the new
\* row's id before the UNIQUE index is checked, and stays advanced
RegisterInsert(p) ==
    /\ reg[p].pc = "r_insert"
    /\ LET id == db.seq + 1 IN
         IF EmailTaken(reg[p].email)
         THEN /\ db' = [db EXCEPT !.seq = id]
              /\ reg' = [reg EXCEPT ![p].pc = "r_ret", ![p].err = ErrCreate]
         ELSE /\ db' = [users |-> db.users \cup {[ID |-> id, Email |-> reg[p].email]},
                        seq |-> id]
              /\ reg' = [reg EXCEPT ![p].pc = "r_ret",
                                    ![p].user = [ID |-> id, Email |-> reg[p].email]]
    /\ UNCHANGED <<registered, notAuth>>

\* Register returns (nil, err) or (&user, nil)
RegisterReturn(p) ==
    /\ reg[p].pc = "r_ret"
    /\ registered' = IF reg[p].err = Nil THEN Append(registered, reg[p].user)
                     ELSE registered
    /\ reg' = [reg EXCEPT ![p] = RIdle]
    /\ UNCHANGED <<db, notAuth>>

\* ---------------------------------------------------- lesson 14: TaskServer
\* a goroutine of the task server with no request
TIdle == [pc |-> "idle", id |-> 0, task |-> ZeroTask]

NoStore == [tasks |-> <<>>, nextID |-> 0]

\* no response yet (before: the store a refused POST, or the write of a PATCH, found)
NoResp == [fn |-> "none", status |-> 0, id |-> 0, body |-> ZeroTask, task |-> ZeroTask,
           before |-> NoStore]

\* NewTaskServer
InitServer ==
    /\ th = [p \in Procs |-> TIdle]
    /\ tresp = NoResp
    /\ treqs = 0

\* ---------------------------------------------------- lesson 18: middleware
\* a handler is the list of the functions a request passes, outermost first,
\* the wrapped handler last
RouteHandler == "r"

\* a plausible slip: the middleware put next to the wrapped handler, so the
\* list is applied inside out
WrapInside(m, next) ==
    SubSeq(next, 1, Len(next) - 1) \o <<m, next[Len(next)]>>

\* m(next): the handler that runs m around next
Wrap(m, next) == <<m>> \o next

\* for i := len(middlewares) - 1; i >= 0; i-- { next = middlewares[i](next) }
RECURSIVE ChainLoop(_, _, _)
ChainLoop(middlewares, i, next) ==
    IF i = 0 THEN next
    ELSE ChainLoop(middlewares, i - 1, Wrap(middlewares[i], next))

\* Chain(middlewares...)(next)
Chain(middlewares, next) == ChainLoop(middlewares, Len(middlewares), next)

NoClaims == [UserID |-> 0, Role |-> ""]
NoRequest == [method |-> "", auth |-> <<>>, route |-> "", seg |-> [digits |-> FALSE, n |-> 0],
              role |-> ""]

\* no request in the chain
\* (ms: the middlewares as listed; handler: what Chain built; pos: the function
\* running, counted from the outermost; entered: the functions run so far;
\* stopped: the position of a middleware that returned without calling next;
\* status: the status line sent, 0 while no header is written; errors: the
\* error bodies written; recovered: the middlewares whose recover() saw a
\* panic; logged: Logging printed its line; claims: the claims in the request
\* context; before: the role column the request found)
MIdle == [phase |-> "idle", ms |-> <<>>, handler |-> <<>>, pos |-> 0, req |-> NoRequest,
          entered |-> <<>>, stopped |-> 0, status |-> 0, errors |-> 0,
          recovered |-> <<>>, logged |-> FALSE, claims |-> NoClaims, before |-> <<>>]

\* the ids of the users table of the role-based server
UserIDs == {1, 2}

InitChain ==
    /\ mw = MIdle
    /\ urole = [i \in UserIDs |-> IF i = 1 THEN "admin" ELSE "user"]

\* the middlewares of lesson 18 that main passes to Chain
Middlewares == {"Logging", "CORS", "Recovery", "ErrorHandler"}

RECURSIVE SeqsUpTo(_, _)
\* the lists of at most n elements of S
SeqsUpTo(S, n) ==
    IF n = 0 THEN {<<>>}
    ELSE LET shorter == SeqsUpTo(S, n - 1) IN
           shorter \cup {Append(q, x) : q \in shorter, x \in S}

\* what the wrapped handler does with a request: answers, panics before it
\* has written anything, or panics after w.WriteHeader
RouteOutcomes == {"ok", "panic", "write_panic"}

\* w.WriteHeader(code): only the first call sets the status line
WriteHeader(m, code) == IF m.status = 0 THEN [m EXCEPT !.status = code] ELSE m

\* writeError(w, code, message), http.Error(w, message, code)
WriteError(m, code) == [WriteHeader(m, code) EXCEPT !.errors = @ + 1]

\* the running function calls next.ServeHTTP(w, r)
CallNext(m) == [m EXCEPT !.pos = @ + 1]

\* the running function returns to the one that called it, or to the server
Back(m) ==
    IF m.pos = 1 THEN [m EXCEPT !.phase = "done", !.pos = 0]
    ELSE [m EXCEPT !.phase = "return", !.pos = @ - 1]

\* the running middleware returns without having called next
Stop(m) == Back([m EXCEPT !.stopped = m.pos])

\* a panic leaves the running function
PanicUp(m) ==
    IF m.pos = 1 THEN [m EXCEPT !.phase = "escaped", !.pos = 0]
    ELSE [m EXCEPT !.phase = "panic", !.pos = @ - 1]

\* the server takes a request for the handler Chain(ms...)(r)
ServeChain ==
    /\ mw.phase = "idle"
    /\ \E ms \in SeqsUpTo(Middlewares, MaxChain), method \in {"GET", "OPTIONS"},
          route \in RouteOutcomes :
          mw' = [MIdle EXCEPT !.phase = "call", !.ms = ms, !.pos = 1,
                              !.handler = Chain(ms, <<RouteHandler>>),
                              !.req = [NoRequest EXCEPT !.method = method, !.route = route]]
    /\ UNCHANGED <<urole, notChain>>

\* the middlewares with defer func() { if err := recover(); err != nil {...} }()
Recovering == {"Recovery", "ErrorHandler"}

\* the body of a lesson 18 function up to its call of next, or to its return
EnterLesson18(m, f) ==
    CASE f = "CORS" ->
           IF m.req.method = "OPTIONS" THEN Stop(m) ELSE CallNext(m)
      [] f = RouteHandler ->
           CASE m.req.route = "ok" -> Back(WriteHeader(m, 200))
             [] m.req.route = "panic" -> PanicUp(m)
             [] OTHER -> PanicUp(WriteHeader(m, 201))
      [] OTHER -> CallNext(m)

\* the function at pos starts to run
Enter ==
    /\ mw.phase = "call"
    /\ mw.handler[mw.pos] \in Middlewares \cup {RouteHandler}
    /\ LET f == mw.handler[mw.pos] IN
         mw' = EnterLesson18([mw EXCEPT !.entered = Append(@, f)], f)
    /\ UNCHANGED <<urole, notChain>>

\* next.ServeHTTP has returned into the function at pos: Logging prints its
\* line, a deferred recover() finds nothing; the function returns
Return ==
    /\ mw.phase = "return"
    /\ mw' = Back(IF mw.handler[mw.pos] = "Logging" THEN [mw EXCEPT !.logged = TRUE]
                  ELSE mw)
    /\ UNCHANGED <<urole, notChain>>

\* a panic reaches the function at pos: a deferred recover() stops it there
\* and writes the 500, any other function is left by it
Unwind ==
    /\ mw.phase = "panic"
    /\ LET f == mw.handler[mw.pos] IN
         mw' = IF f \in Recovering
               THEN Back(WriteError([mw EXCEPT !.recovered = Append(@, f)], 500))
               ELSE PanicUp(mw)
    /\ UNCHANGED <<urole, notChain>>

\* the response is complete (or the server has caught the panic and dropped
\* the connection); the server is free for the next request
Finish ==
    /\ mw.phase \in {"done", "escaped"}
    /\ mw' = MIdle
    /\ UNCHANGED <<urole, notChain>>

\* ---------------------------------------------------- role-based auth server
\* a header value is the list of its pieces, a space being a piece of its own;
\* <<>> is the empty string, which r.Header.Get gives for a missing header
Space == " "
RoleAdmin == "admin"
RoleUser == "user"
RoleGuest == "guest"

\* the token strings clients send, and the claims the valid ones carry
Tokens == {"t_admin", "t_user", "t_expired"}
TokenClaims ==
    [t_admin |-> [UserID |-> 1, Role |-> RoleAdmin],
     t_user |-> [UserID |-> 2, Role |-> RoleUser]]

\* the values of the Authorization header
AuthHeaders ==
    {<<"Bearer", Space, t>> : t \in Tokens}
      \cup { <<>>, <<"Bearer">>, <<"Bearer", Space>>, <<"Basic", Space, "t_admin">>,
             <<"Bearer", Space, Space, "t_admin">>,
             <<"Bearer", Space, "t_admin", Space, "x">> }

RECURSIVE Split(_)
\* strings.Split(s, " "): the parts between the spaces, at least one
Split(s) ==
    IF \A i \in DOMAIN s : s[i] # Space THEN <<s>>
    ELSE LET i == CHOOSE j \in DOMAIN s :
                    s[j] = Space /\ \A k \in 1..(j - 1) : s[k] # Space
         IN  <<SubSeq(s, 1, i - 1)>> \o Split(SubSeq(s, i + 1, Len(s)))

\* ValidateToken(tokenString): the claims, or an error
ValidateToken(tokenString) ==
    IF Len(tokenString) = 1 /\ tokenString[1] \in DOMAIN TokenClaims
    THEN [err |-> FALSE, claims |-> TokenClaims[tokenString[1]]]
    ELSE [err |-> TRUE, claims |-> NoClaims]

\* a plausible slip: the scheme not compared
AnyScheme(bearerToken) == Len(bearerToken) = 2

\* !(len(bearerToken) != 2 || bearerToken[0] != "Bearer")
BearerFormat(bearerToken) == Len(bearerToken) = 2 /\ bearerToken[1] = <<"Bearer">>

\* AuthMiddleware up to next.ServeHTTP(w, r.WithContext(ctx)) or to its 401
AuthMiddleware(m) ==
    LET authHeader == m.req.auth
        bearerToken == Split(authHeader)
    IN  IF authHeader = <<>> THEN Stop(WriteError(m, 401))
        ELSE IF ~BearerFormat(bearerToken) THEN Stop(WriteError(m, 401))
        ELSE LET v == ValidateToken(bearerToken[2]) IN
               IF v.err THEN Stop(WriteError(m, 401))
               ELSE CallNext([m EXCEPT !.claims = v.claims])

\* a plausible slip: the role not compared with the allowed ones
AnyRole(role, allowedRoles) == TRUE

\* for _, role := range allowedRoles { if claims.Role == role { hasAccess = true } }
HasAccess(role, allowedRoles) == role \in allowedRoles

\* RequireRole(allowedRoles...) up to next.ServeHTTP(w, r) or to its 401 or 403
RequireRole(m, allowedRoles) ==
    IF m.claims = NoClaims THEN Stop(WriteError(m, 401))
    ELSE IF ~HasAccess(m.claims.Role, allowedRoles) THEN Stop(WriteError(m, 403))
    ELSE CallNext(m)

\* AuthHandler.GetProfile, AdminHandler.GetAllUsers: the status they answer with
GetProfile(m) ==
    IF m.claims = NoClaims THEN Back(WriteError(m, 401))
    ELSE IF m.claims.UserID \notin DOMAIN urole THEN Back(WriteError(m, 404))
    ELSE Back(WriteHeader(m, 200))

GetAllUsers(m) == Back(WriteHeader(m, 200))

\* AdminHandler.UpdateUserRole: the status, and whether the UPDATE runs
UpdateUserRoleStatus(m) ==
    IF Atoi(m.req.seg).err THEN 400
    ELSE IF m.req.role = "{" THEN 400
    ELSE IF m.req.role \notin {RoleAdmin, RoleUser, RoleGuest} THEN 400
    ELSE IF Atoi(m.req.seg).val \notin DOMAIN urole THEN 404
    ELSE 200

\* the routes behind middlewares added with Use, outermost first
UserRoute == <<"AuthMiddleware", "GetProfile">>
AdminRoutes == { <<"AuthMiddleware", "RequireRole", "GetAllUsers">>,
                 <<"AuthMiddleware", "RequireRole", "UpdateUserRole">> }

\* the server takes a request for one of the routes
ServeRoute ==
    /\ mw.phase = "idle"
    /\ \E handler \in AdminRoutes \cup {UserRoute}, auth \in AuthHeaders :
        \E seg \in (IF handler[Len(handler)] = "UpdateUserRole"
                     THEN [digits : {TRUE}, n : 1..3] \cup {[digits |-> FALSE, n |-> 0]}
                     ELSE {NoRequest.seg}) :
        \E role \in (IF handler[Len(handler)] = "UpdateUserRole"
                      THEN {RoleAdmin, RoleUser, RoleGuest, "root", "{"}
                      ELSE {""}) :
          mw' = [MIdle EXCEPT !.phase = "call", !.pos = 1, !.handler = handler,
                              !.ms = SubSeq(handler, 1, Len(handler) - 1),
                              !.req = [NoRequest EXCEPT !.method = "GET", !.auth = auth,
                                                        !.seg = seg, !.role = role],
                              !.before = urole]
    /\ UNCHANGED <<urole, notChain>>

\* the function at pos of a route starts to run
EnterRoute ==
    /\ mw.phase = "call"
    /\ LET f == mw.handler[mw.pos]
           m == [mw EXCEPT !.entered = Append(@, f)]
       IN  /\ f \in {"AuthMiddleware", "RequireRole", "GetProfile", "GetAllUsers",
                      "UpdateUserRole"}
           /\ mw' = CASE f = "AuthMiddleware" -> AuthMiddleware(m)
                      [] f = "RequireRole" -> RequireRole(m, {RoleAdmin})
                      [] f = "GetProfile" -> GetProfile(m)
                      [] f = "GetAllUsers" -> GetAllUsers(m)
                      [] OTHER ->
                           LET code == UpdateUserRoleStatus(m) IN
                             Back(IF code = 200 THEN WriteHeader(m, 200)
                                  ELSE WriteError(m, code))
           /\ urole' = IF f = "UpdateUserRole" /\ UpdateUserRoleStatus(m) = 200
                       THEN [urole EXCEPT ![Atoi(m.req.seg).val] = m.req.role]
                       ELSE urole
    /\ UNCHANGED notChain

\* ---------------------------------------------------- transferMoney
\* the ids passed as fromID and toID; the accounts table has rows 1 and 2
AcctIDs == {1, 2, 3}
DBError == "database error"
TxIdle == [pc |-> "idle", fromID |-> 0, toID |-> 0, amount |-> 0, view |-> <<>>]
NoTransfer == [fromID |-> 0, toID |-> 0, amount |-> 0, err |-> Nil, before |-> <<>>]

InitTx ==
    /\ acct = <<2, 0>>
    /\ tx = TxIdle
    /\ txres = NoTransfer

\* transferMoney returns err; the deferred tx.Rollback() drops the
\* transaction's view unless it was committed
TxReturn(err, committed) ==
    /\ acct' = committed
    /\ txres' = [fromID |-> tx.fromID, toID |-> tx.toID, amount |-> tx.amount,
                 err |-> err, before |-> acct]
    /\ tx' = TxIdle
    /\ UNCHANGED notTx

\* tx, err := db.Begin()
TxBegin ==
    /\ tx.pc = "idle"
    /\ \E fromID \in AcctIDs, toID \in AcctIDs, amount \in 1..MaxAmount :
          tx' = [pc |-> "begin", fromID |-> fromID, toID |-> toID, amount |-> amount,
                 view |-> acct]
    /\ UNCHANGED <<acct, txres, notTx>>

\* a statement fails (connection lost, timeout): return err
TxFail ==
    /\ tx.pc \in {"begin", "debit", "credit", "commit"}
    /\ TxReturn(DBError, acct)

\* the rows UPDATE ... SET balance = balance - $1 WHERE id = $2 AND balance >= $1
\* changes: none when the row is missing or its balance is too low (no error)
Debited(view, id, amount) ==
    IF id \in DOMAIN view /\ view[id] >= amount
    THEN [view EXCEPT ![id] = @ - amount]
    ELSE view

\* the rows UPDATE ... SET balance = balance + $1 WHERE id = $2 changes
Credited(view, id, amount) ==
    IF id \in DOMAIN view THEN [view EXCEPT ![id] = @ + amount] ELSE view

\* db.Begin() succeeded; the first tx.Exec
TxDebit ==
    /\ tx.pc = "begin"
    /\ tx' = [tx EXCEPT !.pc = "debit", !.view = Debited(tx.view, tx.fromID, tx.amount)]
    /\ UNCHANGED <<acct, txres, notTx>>

\* the second tx.Exec
TxCredit ==
    /\ tx.pc = "debit"
    /\ tx.toID \in DOMAIN tx.view => tx.view[tx.toID] + tx.amount <= MaxTxBalance
    /\ tx' = [tx EXCEPT !.pc = "commit", !.view = Credited(tx.view, tx.toID, tx.amount)]
    /\ UNCHANGED <<acct, txres, notTx>>

\* return tx.Commit()
TxCommit ==
    /\ tx.pc = "commit"
    /\ TxReturn(Nil, tx.view)

\* ---------------------------------------------------- BlogService
BlogIdle == [pc |-> "idle", postID |-> 0, commentID |-> 0, commentPostID |-> 0,
             posts |-> {}, comments |-> {}]
NoBlogCall == [called |-> FALSE, err |-> Nil, postID |-> 0, commentID |-> 0,
               commentPostID |-> 0, posts |-> {}, comments |-> {}]

InitBlog ==
    /\ posts = {}
    /\ comments = {}
    /\ seqs = [posts |-> 0, comments |-> 0]
    /\ btx = BlogIdle
    /\ blogres = NoBlogCall

\* no transaction: every row of the view stays
Autocommitted(committed, view) == view

\* what the deferred tx.Rollback() leaves of a transaction that was not
\* committed: the tables as they were committed, none of the view's rows
RolledBack(committed, view) == committed

\* CreatePostWithInitialComment returns err with the tables as given
BlogReturn(err, newPosts, newComments) ==
    /\ posts' = newPosts
    /\ comments' = newComments
    /\ blogres' = [called |-> TRUE, err |-> err, postID |-> btx.postID,
                   commentID |-> btx.commentID, commentPostID |-> btx.commentPostID,
                   posts |-> posts, comments |-> comments]
    /\ btx' = BlogIdle
    /\ UNCHANGED <<seqs, notBlog>>

\* CreatePost: one INSERT INTO posts on s.db, committed by itself
CreatePost ==
    /\ btx.pc = "idle"
    /\ seqs.posts < MaxBlogRows
    /\ seqs' = [seqs EXCEPT !.posts = @ + 1]
    /\ posts' = posts \cup {seqs.posts + 1}
    /\ blogres' = NoBlogCall
    /\ UNCHANGED <<comments, btx, notBlog>>

\* CreateComment: one INSERT INTO comments on s.db; post_id REFERENCES posts(id)
CreateComment ==
    /\ btx.pc = "idle"
    /\ seqs.comments < MaxBlogRows
    /\ \E post_id \in 1..MaxBlogRows :
          IF post_id \in posts
          THEN /\ seqs' = [seqs EXCEPT !.comments = @ + 1]
               /\ comments' = comments \cup {[id |-> seqs.comments + 1, post_id |-> post_id]}
          ELSE UNCHANGED <<seqs, comments>>
    /\ blogres' = NoBlogCall
    /\ UNCHANGED <<posts, btx, notBlog>>

\* tx, err := s.db.Begin()
BlogBegin ==
    /\ btx.pc = "idle"
    /\ seqs.posts < MaxBlogRows
    /\ seqs.comments < MaxBlogRows
    /\ btx' = [BlogIdle EXCEPT !.pc = "begin", !.posts = posts, !.comments = comments]
    /\ UNCHANGED <<posts, comments, seqs, blogres, notBlog>>

\* Begin, an INSERT ... RETURNING or Commit fails: return err
BlogFail ==
    /\ btx.pc \in {"begin", "post", "comment", "commit"}
    /\ BlogReturn(DBError, RolledBack(posts, btx.posts), RolledBack(comments, btx.comments))

\* INSERT INTO posts ... RETURNING id, scanned into post.ID
InsertPost ==
    /\ btx.pc = "begin"
    /\ LET id == seqs.posts + 1
       IN  /\ seqs' = [seqs EXCEPT !.posts = id]
           /\ btx' = [btx EXCEPT !.pc = "post", !.postID = id, !.posts = @ \cup {id}]
    /\ UNCHANGED <<posts, comments, blogres, notBlog>>

\* comment.PostID = post.ID; INSERT INTO comments ... RETURNING id
InsertComment ==
    /\ btx.pc = "post"
    /\ LET id == seqs.comments + 1
           post_id == btx.postID
       IN  /\ post_id \in btx.posts    \* post_id REFERENCES posts(id)
           /\ seqs' = [seqs EXCEPT !.comments = id]
           /\ btx' = [btx EXCEPT !.pc = "commit", !.commentID = id,
                                 !.commentPostID = post_id,
                                 !.comments = @ \cup {[id |-> id, post_id |-> post_id]}]
    /\ UNCHANGED <<posts, comments, blogres, notBlog>>

\* return tx.Commit()
BlogCommit ==
    /\ btx.pc = "commit"
    /\ BlogReturn(Nil, btx.posts, btx.comments)

\* ---------------------------------------------------- TaskManager (CSV)
MaxInt == 2^(IntBits - 1) - 1
MinInt == -(2^(IntBits - 1))
\* int arithmetic wraps around
WrapInt(n) == ((n - MinInt) % 2^IntBits) + MinInt

\* the texts of a row's ID column
IDFields == {"1", "2", "01", "x", "-1", "9223372036854775807"}
\* the texts of a row's Completed column
BoolFields == {"true", "x"}
Titles == {"b"}
\* the ids CompleteTask is called with: the ends of int and the small ids
CompleteIDs == {MinInt, MaxInt} \cup (-1..MaxCsvTasks)

\* id, _ := strconv.AtoiID(record[0]): on a syntax error the value is 0, on a
\* range error it is the largest int, and the error is dropped
AtoiID(field) ==
    CASE field = "1" -> 1
      [] field = "2" -> 2
      [] field = "01" -> 1
      [] field = "-1" -> -1
      [] field = "9223372036854775807" -> MaxInt
      [] OTHER -> 0

\* completed, _ := strconv.ParseBool(record[4])
ParseBool(field) == field = "true"

\* a row of tasks.csv: its number of columns, and the columns the manager reads
Records == [len : {6, 7}, id : IDFields, title : {"a"}, completed : BoolFields]
Files == SeqsUpTo(Records, MaxRows)

NewTaskManager == [tasks |-> <<>>, nextID |-> 1, loaded |-> FALSE, distinct |-> FALSE]
NoTmCall == [op |-> "none", id |-> 0, ok |-> FALSE, before |-> <<>>]

InitCsv ==
    /\ tm = NewTaskManager
    /\ tmres = NoTmCall

\* the rows LoadTasks keeps
Kept(records) == SelectSeq(records, LAMBDA record : record.len = 7)

\* if id >= tm.nextID { tm.nextID = id + 1 }
NextAfter(next, id) == IF id >= next THEN WrapInt(id + 1) ELSE next

\* for _, record := range records { ... }
RECURSIVE LoadLoop(_, _, _)
LoadLoop(records, i, m) ==
    IF i > Len(records) THEN m
    ELSE LET record == records[i]
             id == AtoiID(record.id)
             task == [ID |-> id, Title |-> record.title,
                      Completed |-> ParseBool(record.completed)]
         IN  IF record.len # 7
             THEN LoadLoop(records, i + 1, m)
             ELSE LoadLoop(records, i + 1,
                           [m EXCEPT !.tasks = Append(@, task),
                                     !.nextID = NextAfter(@, id)])

\* the IDs of the rows LoadTasks keeps are pairwise distinct
DistinctIDs(records) ==
    \A i, j \in 1..Len(Kept(records)) :
        i # j => AtoiID(Kept(records)[i].id) # AtoiID(Kept(records)[j].id)

\* LoadTasks on the fresh manager: the file is missing or cannot be read (the
\* manager stays as it is), or all its rows are read
LoadTasks ==
    /\ ~tm.loaded
    /\ \/ tm' = [tm EXCEPT !.loaded = TRUE, !.distinct = TRUE]
       \/ \E records \in Files :
             tm' = [LoadLoop(records, 1, tm) EXCEPT !.loaded = TRUE,
                                                    !.distinct = DistinctIDs(records)]
    /\ tmres' = [op |-> "LoadTasks", id |-> 0, ok |-> TRUE, before |-> tm.tasks]
    /\ UNCHANGED notCsv

AddTask ==
    /\ tm.loaded
    /\ Len(tm.tasks) < MaxCsvTasks
    /\ \E title \in Titles :
          LET task == [ID |-> tm.nextID, Title |-> title, Completed |-> FALSE]
          IN  tm' = [tm EXCEPT !.tasks = Append(@, task), !.nextID = WrapInt(@ + 1)]
    /\ tmres' = [op |-> "AddTask", id |-> tm.nextID, ok |-> TRUE, before |-> tm.tasks]
    /\ UNCHANGED notCsv

\* the first index of tm.tasks whose ID is id, 0 when there is none
FirstWithID(list, id) ==
    IF \E i \in 1..Len(list) : list[i].ID = id
    THEN CHOOSE i \in 1..Len(list) :
            /\ list[i].ID = id
            /\ \A j \in 1..(i - 1) : list[j].ID # id
    ELSE 0

CompleteTask ==
    /\ tm.loaded
    /\ \E id \in CompleteIDs :
          LET i == FirstWithID(tm.tasks, id)
          IN  /\ tm' = IF i = 0 THEN tm
                        ELSE [tm EXCEPT !.tasks[i].Completed = TRUE]
              /\ tmres' = [op |-> "CompleteTask", id |-> id, ok |-> i # 0,
                           before |-> tm.tasks]
    /\ UNCHANGED notCsv

Init ==
    /\ InitCsv
    /\ InitBlog
    /\ InitStore /\ InitUsers /\ InitSvc /\ InitBank /\ InitAuth /\ InitServer
    /\ InitChain /\ InitTx

\* ------------------------------------------------------------ specification
\* any number of calls of the six methods, by NumProcs goroutines
Next ==
    \E p \in Procs :
        \/ CallCreate(p) \/ Get(p) \/ GetAll(p) \/ GetByStatus(p)
        \/ CallUpdate(p) \/ CallDelete(p)
        \/ Lock(p) \/ Unlock(p) \/ RUnlock(p)
        \/ CreateAssign(p) \/ CreateStore(p) \/ CreateIncr(p)
        \/ UpdateCheck(p) \/ UpdateStore(p)
        \/ DeleteCheck(p) \/ DeleteRemove(p)

Spec == Init /\ [][Next]_vars

\* lesson 14, first server: requests one after another
NextUsers ==
    \/ \E method \in Methods : \E body \in Bodies(method) :
          apiUsersHandler(method, body)
    \/ \E seg \in PathIDs, method \in Methods : \E body \in Bodies(method) :
          apiUserHandler(seg, method, body)

SpecUsers == Init /\ [][NextUsers]_vars

\* lesson 12: the server's goroutines run CreateUserHandler side by side
NextSvc ==
    \/ \E p \in Procs :
          \/ CreateUserHandler(p) \/ CreateUserNew(p) \/ CreateUserPut(p)
          \/ CreateUserLoad(p) \/ CreateUserIncr(p) \/ CreateUserCreated(p)
          \/ GetUserHandler(p) \/ GetUser(p)
          \/ HandlerReturn(p)
    \/ ConcurrentMapWrites \/ ConcurrentMapReadWrite

SpecSvc == Init /\ [][NextSvc]_vars

\* every goroutine calls Create once on the new store and ends
Done(p) == [g[p] EXCEPT !.pc = "done"]

CreateOnce(p) == Create(p)

ReturnCreated(p) == UnlockTo(p, Done(p))

NextCreate ==
    \E p \in Procs :
        \/ CreateOnce(p) \/ Lock(p) \/ ReturnCreated(p)
        \/ CreateAssign(p) \/ CreateStore(p) \/ CreateIncr(p)

SpecCreate == Init /\ [][NextCreate]_vars

\* lesson 12 bank: calls one after another (Account has no lock)
NextBank ==
    \/ \E initialBalance \in Amounts : NewAccount(initialBalance)
    \/ \E a \in 1..NumAccts, amount \in Amounts :
          \/ Deposit(a, amount)
          \/ Withdraw(a, amount)
          \/ \E to \in 1..NumAccts : Transfer(a, amount, to)

SpecBank == Init /\ [][NextBank]_vars

\* lesson 12 AuthService: goroutines run Register side by side on one database
NextAuth ==
    \E p \in Procs : RegisterSelect(p) \/ RegisterInsert(p) \/ RegisterReturn(p)

SpecAuth == Init /\ [][NextAuth]_vars

\* lesson 18: requests, one at a time, through chains of every shape
NextChain == ServeChain \/ Enter \/ Return \/ Unwind \/ Finish

SpecChain == Init /\ [][NextChain]_vars

\* the CSV TaskManager: LoadTasks once, then AddTask and CompleteTask
NextCsv == LoadTasks \/ AddTask \/ CompleteTask

SpecCsv == Init /\ [][NextCsv]_vars

\* the BlogService methods that write, one call at a time
NextBlog ==
    \/ CreatePost \/ CreateComment
    \/ BlogBegin \/ BlogFail \/ InsertPost \/ InsertComment \/ BlogCommit

SpecBlog == Init /\ [][NextBlog]_vars

\* transferMoney, one call at a time
NextTx == TxBegin \/ TxFail \/ TxDebit \/ TxCredit \/ TxCommit

SpecTx == Init /\ [][NextTx]_vars

\* the role-based auth server: requests, one at a time, to its routes
NextRoutes == ServeRoute \/ EnterRoute \/ Return \/ Finish

SpecRoutes == Init /\ [][NextRoutes]_vars

\* ---------------------------------------------------- calls that wait for the lock
\* the Create calls that have not yet advanced nextID
PendingCreates ==
    Cardinality({q \in Procs : g[q].pc \in {"c_call", "c_lock", "c1", "c2", "c3"}})

\* a goroutine calls a method and may have to wait in ts.Lock() or ts.RLock()
\* behind others; nothing reads the call's arguments before the lock is held
Invoke(p) ==
    /\ g[p].pc = "idle"
    /\ \E m \in {"c_call", "u_call", "d_call", "g_call", "ga_call", "gs_call"} :
          /\ m = "c_call" => nextID + PendingCreates <= MaxTasks
          /\ g' = [g EXCEPT ![p] = [Idle EXCEPT !.pc = m]]
    /\ calls < MaxCalls
    /\ calls' = calls + 1
    /\ UNCHANGED <<tasks, nextID, mu, createdIDs, delCount, lastOp, lin, serverVars,
                   otherVars>>

\* the waiting call gets through ts.Lock()'s writers' mutex or through ts.RLock()
Acquire(p) ==
    \/ \E t \in TaskInputs : BeginLockAt(p, "c_call", "c_lock", 0, t)
    \/ \E id \in IDs, t \in TaskInputs : BeginLockAt(p, "u_call", "u_lock", id, t)
    \/ \E id \in IDs : BeginLockAt(p, "d_call", "d_lock", id, ZeroTask)
    \/ \E id \in IDs : GetRead(p, "g_call", id)
    \/ GetAllRead(p, "ga_call")
    \/ \E c \in BOOLEAN : GetByStatusRead(p, "gs_call", c)

\* the steps of a call that wait for no other goroutine's call to end
Proceed(p) ==
    \/ Lock(p) \/ Unlock(p) \/ RUnlock(p)
    \/ CreateAssign(p) \/ CreateStore(p) \/ CreateIncr(p)
    \/ UpdateCheck(p) \/ UpdateStore(p)
    \/ DeleteCheck(p) \/ DeleteRemove(p)

NextLive == \E p \in Procs : Invoke(p) \/ Acquire(p) \/ Proceed(p)

\* the scheduler runs every goroutine that can take a step; sync.Mutex hands
\* the lock to a waiter that keeps waiting (starvation mode), and Unlock
\* admits the readers that wait before the next writer
FairLive ==
    \A p \in Procs : WF_vars(Proceed(p)) /\ SF_vars(Acquire(p))

SpecLive == Init /\ [][NextLive]_vars /\ FairLive

\* ------------------------------------------------------------ the sequential methods
\* Update as one step on a store s = [tasks, nextID]: the store after it and
\* what it returns
SeqUpdate(s, id, t) ==
    IF id \in DOMAIN s.tasks
    THEN [tasks |-> Put(s.tasks, id, [t EXCEPT !.ID = id]), nextID |-> s.nextID,
          task |-> [t EXCEPT !.ID = id], ok |-> TRUE]
    ELSE [tasks |-> s.tasks, nextID |-> s.nextID, task |-> ZeroTask, ok |-> FALSE]

\* Delete as one step on a store s
SeqDelete(s, id) ==
    IF id \in DOMAIN s.tasks
    THEN [tasks |-> Remove(s.tasks, id), nextID |-> s.nextID, ok |-> TRUE]
    ELSE [tasks |-> s.tasks, nextID |-> s.nextID, ok |-> FALSE]

\* ------------------------------------------------------------ positions
\* the goroutines between ts.Lock() and the deferred ts.Unlock()
Writers ==
    {p \in Procs : g[p].pc \in {"c1", "c2", "c3", "c_ret", "u1", "u2", "u_ret",
                                 "d1", "d2", "d_ret"}}
\* the goroutines between ts.RLock() and the deferred ts.RUnlock()
Readers == {p \in Procs : g[p].pc \in {"g_ret", "ga_ret", "gs_ret"}}

Store == [tasks |-> tasks, nextID |-> nextID]

\* Create as one step on a store s, at time now
SeqCreate(s, t, now) ==
    LET task == [t EXCEPT !.ID = s.nextID, !.CreatedAt = now] IN
      [tasks |-> Put(s.tasks, s.nextID, task), nextID |-> s.nextID + 1, task |-> task]

\* ---------------------------------------------------- lesson 14: the task handlers
\* The handlers call the TaskStore methods, each of which acts as one step on
\* the store (its lock); a handler is a step per method call.  The histories
\* of the separate method steps (delCount, lastOp, lin) are not kept here.

\* a request body with no title
NoTitle == [ZeroTask EXCEPT !.Description = "d", !.Priority = "low"]
\* a body that is not JSON
BadTaskJSON == [ZeroTask EXCEPT !.ID = 0 - 1, !.Title = "{"]
\* the bodies of POST and PUT requests
TaskBodies == TaskInputs \cup {NoTitle, BadTaskJSON}
\* the {id} segment of the path
TaskSegs == [digits : {TRUE}, n : IDs] \cup {[digits |-> FALSE, n |-> 0]}

\* json.NewDecoder(r.Body).Decode(&task)
DecodeTask(body) ==
    IF body = BadTaskJSON THEN [err |-> TRUE, val |-> ZeroTask]
    ELSE [err |-> FALSE, val |-> body]

\* a plausible slip: the title check left out
TitleNeverMissing(task) == FALSE

\* if task.Title == "" in createTaskHandler
TitleMissing(task) == task.Title = ""

\* a plausible slip: the priority left as sent
KeepPriority(task) == task

\* if task.Priority == "" { task.Priority = "medium" }
DefaultPriority(task) ==
    IF task.Priority = "" THEN [task EXCEPT !.Priority = "medium"] ELSE task

\* no goroutine holds the store's lock for writing, none for reading
StoreFree == WriterFree /\ ReadersGone

\* the server accepts a request and hands it to goroutine p
Accept(p) ==
    /\ th[p].pc = "idle"
    /\ treqs < MaxTaskReqs
    /\ treqs' = treqs + 1

\* POST /tasks
createTaskHandler(p, body) ==
    /\ Accept(p) /\ StoreFree
    /\ nextID <= MaxTasks
    /\ LET dec == DecodeTask(body) IN
         IF dec.err \/ TitleMissing(dec.val)
         THEN /\ tresp' = [NoResp EXCEPT !.fn = "create", !.status = 400, !.body = body,
                                         !.before = Store]
              /\ UNCHANGED <<tasks, nextID, createdIDs>>
         ELSE \E now \in Times :
                LET r == SeqCreate(Store, DefaultPriority(dec.val), now) IN
                  /\ tasks' = r.tasks
                  /\ nextID' = r.nextID
                  /\ createdIDs' = Append(createdIDs, r.task.ID)
                  /\ tresp' = [NoResp EXCEPT !.fn = "create", !.status = 201,
                                             !.body = body, !.task = r.task]
    /\ UNCHANGED <<mu, g, delCount, lastOp, lin, th, calls, otherVars>>

\* PUT /tasks/{id}
updateTaskHandler(p, seg, body) ==
    /\ Accept(p) /\ StoreFree
    /\ LET id == Atoi(seg)
           dec == DecodeTask(body)
           r == SeqUpdate(Store, id.val, dec.val)
           bad == [NoResp EXCEPT !.fn = "update", !.status = 400, !.body = body]
       IN  IF id.err \/ dec.err
           THEN tresp' = bad /\ UNCHANGED tasks
           ELSE /\ tasks' = r.tasks
                /\ tresp' = [bad EXCEPT !.id = id.val, !.task = r.task,
                                        !.status = IF r.ok THEN 200 ELSE 404]
    /\ UNCHANGED <<nextID, mu, g, createdIDs, delCount, lastOp, lin, th, calls, otherVars>>

\* DELETE /tasks/{id}
deleteTaskHandler(p, seg) ==
    /\ Accept(p) /\ StoreFree
    /\ LET id == Atoi(seg)
           r == SeqDelete(Store, id.val)
           bad == [NoResp EXCEPT !.fn = "delete", !.status = 400]
       IN  IF id.err
           THEN tresp' = bad /\ UNCHANGED tasks
           ELSE /\ tasks' = r.tasks
                /\ tresp' = [bad EXCEPT !.id = id.val,
                                        !.status = IF r.ok THEN 204 ELSE 404]
    /\ UNCHANGED <<nextID, mu, g, createdIDs, delCount, lastOp, lin, th, calls, otherVars>>

\* PATCH /tasks/{id}/complete, up to task.Completed = true
completeTaskHandler(p, seg) ==
    /\ Accept(p) /\ NoWriter
    /\ LET id == Atoi(seg)
           bad == [NoResp EXCEPT !.fn = "complete", !.status = 400]
       IN  IF id.err
           THEN tresp' = bad /\ UNCHANGED th
           ELSE IF id.val \notin DOMAIN tasks
           THEN tresp' = [bad EXCEPT !.id = id.val, !.status = 404] /\ UNCHANGED th
           ELSE /\ th' = [th EXCEPT ![p] = [pc |-> "complete", id |-> id.val,
                               task |-> [tasks[id.val] EXCEPT !.Completed = TRUE]]]
                /\ UNCHANGED tresp
    /\ UNCHANGED <<storeVars, calls, otherVars>>

\* completeTaskHandler: ts.store.Update(id, task), its result dropped; Encode(task)
completeTaskUpdate(p) ==
    /\ th[p].pc = "complete" /\ StoreFree
    /\ tasks' = SeqUpdate(Store, th[p].id, th[p].task).tasks
    /\ tresp' = [NoResp EXCEPT !.fn = "complete", !.status = 200, !.id = th[p].id,
                               !.task = th[p].task, !.before = Store]
    /\ th' = [th EXCEPT ![p] = TIdle]
    /\ UNCHANGED <<nextID, mu, g, createdIDs, delCount, lastOp, lin, treqs, calls,
                   otherVars>>

\* the task server: its goroutines serve requests side by side
NextServer ==
    \E p \in Procs :
        \/ \E body \in TaskBodies : createTaskHandler(p, body)
        \/ \E seg \in TaskSegs, body \in TaskBodies : updateTaskHandler(p, seg, body)
        \/ \E seg \in TaskSegs : deleteTaskHandler(p, seg) \/ completeTaskHandler(p, seg)
        \/ completeTaskUpdate(p)

SpecServer == Init /\ [][NextServer]_vars

\* the two servers that take create requests, lesson 12's and the task
\* server, each run as its own process: a behaviour is a run of one of them
NextHandlers ==
    \/ treqs = 0 /\ NextSvc
    \/ reqs = 0 /\ NextServer

SpecHandlers == Init /\ [][NextHandlers]_vars

\* ------------------------------------------------------------ claims

\* C1: the identifiers returned by successive Create calls start at 1 and are
\* strictly increasing (hence pairwise distinct), whatever Get, GetAll, Update
\* and Delete calls come between them; a Delete never makes Create hand out
\* an identifier again.
C1_CreateIDsIncrease ==
    /\ (Len(createdIDs) >= 1 => createdIDs[1] = 1)
    /\ \A i, j \in DOMAIN createdIDs : i < j => createdIDs[i] < createdIDs[j]

\* a Create returns identifier 2 after identifier 1 was deleted
C1_Witness ==
    \E p \in Procs : g[p].pc = "c_ret" /\ g[p].task.ID = 2 /\ delCount[1] = 1

\* C2: when every goroutine has called Create once on the new store, the store
\* holds exactly NumProcs tasks, the returned identifiers are pairwise distinct
\* and are exactly 1..NumProcs, and nextID is NumProcs + 1.
C2_ConcurrentCreate ==
    (\A p \in Procs : g[p].pc = "done") =>
        /\ DOMAIN tasks = 1..NumProcs
        /\ nextID = NumProcs + 1
        /\ {g[p].task.ID : p \in Procs} = 1..NumProcs
        /\ \A p, q \in Procs : p # q => g[p].task.ID # g[q].task.ID
        /\ \A p \in Procs : tasks[g[p].task.ID] = g[p].task

\* all the goroutines have returned from Create
C2_Witness == \A p \in Procs : g[p].pc = "done"

\* C3 as stated: a Get of an identifier whose entry was last written by
\* Create(t) finds it and returns t with only the ID field changed.
C3_GetAfterCreateOnlyID ==
    \A p \in Procs :
        (g[p].pc = "g_ret" /\ lastOp[g[p].id].kind = "create") =>
            /\ g[p].ok
            /\ g[p].task = [lastOp[g[p].id].task EXCEPT !.ID = g[p].id]

\* C3, amended: a Get of an identifier whose entry was last written by
\* Create(t) finds it and returns t in every field except ID, which is the
\* assigned identifier, and CreatedAt, which is the reading of time.Now()
\* Create took.
C3_GetAfterCreate ==
    \A p \in Procs :
        (g[p].pc = "g_ret" /\ lastOp[g[p].id].kind = "create") =>
            /\ g[p].ok
            /\ g[p].task.ID = g[p].id
            /\ g[p].task.CreatedAt \in Times
            /\ [g[p].task EXCEPT !.CreatedAt = 0] =
                   [lastOp[g[p].id].task EXCEPT !.ID = g[p].id, !.CreatedAt = 0]

\* a Get returns a task that Create stored, whose caller had set ID and CreatedAt
C3_Witness ==
    \E p \in Procs :
        /\ g[p].pc = "g_ret" /\ g[p].ok
        /\ lastOp[g[p].id].kind = "create"
        /\ lastOp[g[p].id].task.CreatedAt = 9
        /\ lastOp[g[p].id].task.ID # g[p].id

\* C4: Update with an identifier that is not a key when it takes the lock
\* returns (Task{}, false) and the store (tasks and nextID) is as it was
\* when the call took the lock.
C4_UpdateAbsent ==
    \A p \in Procs :
        (g[p].pc = "u_ret" /\ g[p].id \notin DOMAIN lin.tasks) =>
            /\ ~g[p].ok
            /\ g[p].task = ZeroTask
            /\ Store = lin

\* an Update of an absent identifier returns on a store that holds tasks
C4_Witness ==
    \E p \in Procs :
        g[p].pc = "u_ret" /\ ~g[p].ok /\ g[p].id \notin DOMAIN tasks /\ tasks # <<>>

\* C5: once Delete(id) has returned true, no Get(id) finds the task, no
\* Update(id, v) and no further Delete(id) returns true, whatever calls come
\* between; Delete of an absent identifier returns false and leaves the
\* store as it was.
C5_DeletedStaysDeleted ==
    /\ \A i \in DOMAIN delCount : delCount[i] <= 1
    /\ \A i \in DOMAIN delCount : delCount[i] >= 1 => i \notin DOMAIN tasks
    /\ \A p \in Procs :
        /\ (g[p].pc \in {"g_ret", "u_ret"} /\ delCount[g[p].id] >= 1) => ~g[p].ok
        /\ (g[p].pc = "d_ret" /\ g[p].id \notin DOMAIN lin.tasks) =>
               (~g[p].ok /\ Store = lin)

\* a Get of a deleted identifier returns after a later Create and Update
C5_Witness ==
    \E p \in Procs :
        /\ g[p].pc = "g_ret" /\ ~g[p].ok /\ g[p].id = 1
        /\ delCount[1] = 1
        /\ lastOp[2].kind = "update"

\* C6: Update of an existing identifier returns true and the value with its
\* ID field set to the identifier; a later Get returns that value, whatever
\* ID the caller passed; every stored task's ID field is its key.
C6_UpdateKeepsID ==
    /\ \A k \in DOMAIN tasks : tasks[k].ID = k
    /\ \A p \in Procs :
        /\ (g[p].pc = "u_ret" /\ g[p].id \in DOMAIN lin.tasks) =>
               /\ g[p].ok
               /\ g[p].task = [g[p].arg EXCEPT !.ID = g[p].id]
               /\ g[p].id \in DOMAIN tasks
               /\ tasks[g[p].id] = g[p].task
        /\ (g[p].pc = "g_ret" /\ lastOp[g[p].id].kind = "update") =>
               /\ g[p].ok
               /\ g[p].task = [lastOp[g[p].id].task EXCEPT !.ID = g[p].id]

\* a Get returns a task that Update stored, whose caller had passed another ID
C6_Witness ==
    \E p \in Procs :
        /\ g[p].pc = "g_ret" /\ g[p].ok
        /\ lastOp[g[p].id].kind = "update"
        /\ lastOp[g[p].id].task.ID \notin {0, g[p].id}

\* C7: in the users slice of lesson 14, after any POST, PUT and DELETE
\* requests, no two users have the same ID.
C7_UniqueUserIDs ==
    \A i, j \in DOMAIN users : i # j => users[i].ID # users[j].ID

\* C8: at most one goroutine is inside Create, Update or Delete; while one
\* is, none is inside Get, GetAll or GetByStatus; tasks and nextID change
\* only in a step of the goroutine that holds the write lock.
C8_Exclusion ==
    /\ Cardinality(Writers) <= 1
    /\ Writers # {} => Readers = {}
    /\ \A p \in Writers : mu.writer = p

C8_WritesUnderLock ==
    (tasks' # tasks \/ nextID' # nextID) =>
        \E p \in Writers : mu.writer = p /\ g'[p] # g[p]

C8_LockDiscipline == [](C8_Exclusion) /\ [][C8_WritesUnderLock]_vars

\* two goroutines are inside read methods at once
C8_Witness == Cardinality(Readers) >= 2 /\ mu.readerCount = 2

\* C9: the users CreateUserHandler answered 201 with have pairwise distinct
\* IDs, and once every request is answered each of them is in the map under
\* its ID.
C9_CreateUserSafe ==
    /\ \A i, j \in DOMAIN svcCreated : i # j => svcCreated[i].ID # svcCreated[j].ID
    /\ (\A p \in Procs : h[p].pc = "idle") =>
          \A i \in DOMAIN svcCreated :
              /\ svcCreated[i].ID \in DOMAIN svc.users
              /\ svc.users[svcCreated[i].ID] = svcCreated[i]

\* C10: every Update and Delete acts as one step on the store it found when
\* it took the lock: at its return the store and the returned values are
\* those of the sequential method; the value under the identifier is then the
\* one of the Update that took the lock last; with no writer inside, the
\* store is the one the last writer left.
C10_Linearizable ==
    /\ \A p \in Procs :
        /\ g[p].pc = "u_ret" =>
               LET r == SeqUpdate(lin, g[p].id, g[p].arg) IN
                 /\ tasks = r.tasks /\ nextID = r.nextID
                 /\ g[p].task = r.task /\ g[p].ok = r.ok
                 /\ g[p].ok => tasks[g[p].id] = [g[p].arg EXCEPT !.ID = g[p].id]
        /\ g[p].pc = "d_ret" =>
               LET r == SeqDelete(lin, g[p].id) IN
                 /\ tasks = r.tasks /\ nextID = r.nextID /\ g[p].ok = r.ok
    /\ Writers = {} => Store = lin

\* an Update returns having replaced the value another Update had written
C10_Witness ==
    \E p \in Procs :
        /\ g[p].pc = "u_ret" /\ g[p].ok
        /\ \E t \in TaskInputs \ {g[p].arg} :
              lin.tasks[g[p].id] = [t EXCEPT !.ID = g[p].id]

\* C12: Get, GetAll and GetByStatus leave tasks and nextID as they are, for
\* every argument; Get returns the entry under the identifier or not-found;
\* GetAll returns the stored tasks, one per key; GetByStatus(c) returns
\* the stored tasks whose Completed field is c, one per such key.
C12_ReadResults ==
    \A p \in Procs :
        /\ g[p].pc = "g_ret" =>
               /\ g[p].ok = (g[p].id \in DOMAIN tasks)
               /\ g[p].task = IF g[p].ok THEN tasks[g[p].id] ELSE ZeroTask
        /\ g[p].pc = "ga_ret" =>
               /\ DOMAIN g[p].list = {tasks[k] : k \in DOMAIN tasks}
               /\ \A k \in DOMAIN tasks : g[p].list[tasks[k]] = 1
        /\ g[p].pc = "gs_ret" =>
               LET ks == {k \in DOMAIN tasks : tasks[k].Completed = g[p].flag} IN
                 /\ DOMAIN g[p].list = {tasks[k] : k \in ks}
                 /\ \A k \in ks : g[p].list[tasks[k]] = 1

C12_ReadStep ==
    \A p \in Procs :
        (g'[p] # g[p] /\ ({g[p].pc, g'[p].pc} \cap {"g_ret", "ga_ret", "gs_ret"} # {}))
            => (tasks' = tasks /\ nextID' = nextID)

C12_ReadsOnly == [](C12_ReadResults) /\ [][C12_ReadStep]_vars

\* GetByStatus returns some of the stored tasks and leaves one out
C12_Witness ==
    \E p \in Procs :
        /\ g[p].pc = "gs_ret" /\ g[p].list # <<>>
        /\ \E k \in DOMAIN tasks : tasks[k].Completed # g[p].flag

\* C11: under fair scheduling every call of a TaskStore method returns, on
\* every path, and a goroutine that has returned holds no lock: the writer
\* mark is not its own and the reader count is the number of readers inside.
C11_LocksReleased ==
    /\ \A p \in Procs : g[p].pc \in {"idle", "c_call", "u_call", "d_call",
                                       "g_call", "ga_call", "gs_call"}
                             => mu.writer # p
    /\ mu.readerCount = Cardinality(Readers)

C11_EveryCallReturns ==
    /\ [](C11_LocksReleased)
    /\ \A p \in Procs : (g[p].pc # "idle") ~> (g[p].pc = "idle")

\* an Update returns not-found while another goroutine's call waits for the lock
C11_Witness ==
    \E p, q \in Procs :
        /\ g[p].pc = "u_ret" /\ ~g[p].ok
        /\ g[q].pc \in {"c_call", "u_call", "d_call", "g_call", "ga_call", "gs_call"}

C16_OneUserPerEmail ==
    /\ \A u, v \in db.users : u.Email = v.Email => u = v
    /\ \A e \in Emails :
          Cardinality({i \in DOMAIN registered : registered[i].Email = e})
            + Cardinality({p \in Procs : /\ reg[p].pc = "r_ret" /\ reg[p].err = Nil
                                         /\ reg[p].email = e})
          <= 1

\* two calls with the same email have both passed the existence check, and one
\* of them has inserted its row
C16_Witness ==
    \E p, q \in Procs :
        /\ p # q /\ reg[p].email = reg[q].email
        /\ reg[p].pc = "r_ret" /\ reg[p].err = Nil
        /\ reg[q].pc = "r_insert"

\* C17: a Register call refused because the email is taken returns the error
\* "user already exists", in every interleaving, and inserts no row.
C17_RefusedAsExists ==
    \A p \in Procs :
        (reg[p].pc = "r_ret" /\ reg[p].err # Nil) =>
            /\ reg[p].err = ErrExists
            /\ \A u \in db.users : u.Email = reg[p].email => u # reg[p].user

\* C14: after any requests through createTaskHandler, updateTaskHandler,
\* completeTaskHandler and deleteTaskHandler, every task in the TaskStore has
\* a non-empty Title.
C14_TitlesKept == \A k \in DOMAIN tasks : tasks[k].Title # ""

\* C15: the task createTaskHandler has just stored has Priority "medium" when
\* the request left it empty and the request's Priority otherwise, so its
\* Priority is never empty.
C15_PriorityDefault ==
    (tresp.fn = "create" /\ tresp.status = 201) =>
        LET id == tresp.task.ID IN
          /\ id \in DOMAIN tasks
          /\ tasks[id] = tresp.task
          /\ tasks[id].Priority = IF tresp.body.Priority = "" THEN "medium"
                                  ELSE tresp.body.Priority
          /\ tasks[id].Priority # ""

\* a task has been created from a request with no Priority
C15_Witness ==
    /\ tresp.fn = "create" /\ tresp.status = 201
    /\ tresp.body.Priority = "" /\ tresp.task.Priority = "medium"

\* C18: GetUserHandler answers a GET with 200 and the stored user exactly
\* when the id parameter is a number and UserService holds a user with that
\* id, with 404 when it is a number and there is no such user, with 400 when
\* the parameter is missing or not a number; its steps leave the store as it is.
C18_Parsed ==
    \A p \in Procs :
        (h[p].fn = "get" /\ h[p].method = "GET") =>
            LET isNumber == h[p].param.present /\ h[p].param.digits IN
              /\ h[p].pc = "gu1" => isNumber /\ h[p].id = h[p].param.n
              /\ h[p].pc = "resp" =>
                    /\ h[p].status \in {200, 404, 400}
                    /\ h[p].status = 400 <=> ~isNumber

C18_Lookup ==
    \A p \in Procs :
        /\ (h[p].fn = "get" \/ h'[p].fn = "get") /\ h'[p] # h[p] => svc' = svc
        /\ (h[p].pc = "gu1" /\ h'[p].pc = "resp") =>
              IF h[p].id \in DOMAIN svc.users
              THEN h'[p].status = 200 /\ h'[p].user = svc.users[h[p].id]
              ELSE h'[p].status = 404

C18_GetUser == [](C18_Parsed) /\ [][C18_Lookup]_vars

\* a GET has been answered with a stored user
C18_Witness ==
    \E p \in Procs :
        /\ h[p].fn = "get" /\ h[p].pc = "resp" /\ h[p].status = 200
        /\ h[p].user.Name # ""

\* C13: a create request with an empty required field is answered 400 and
\* leaves the store as it was.  createTaskHandler with an empty Title: the
\* store is the one the request found, and the identifiers handed out so far
\* are 1, 2, ... with none skipped.  CreateUserHandler with an empty Name or
\* Email: the step that answers leaves users and nextID alone, and no such
\* request gets into CreateUser.
C13_TaskRejected ==
    /\ (tresp.fn = "create" /\ tresp.body # BadTaskJSON /\ tresp.body.Title = "") =>
           /\ tresp.status = 400
           /\ tresp.before = Store
    /\ \A i \in DOMAIN createdIDs : createdIDs[i] = i
    /\ treqs > 0 => nextID = Len(createdIDs) + 1

C13_UserRejected ==
    \A p \in Procs :
        (h[p].fn = "create" /\ h[p].method = "POST" /\ ~h[p].bad
           /\ (h[p].name = "" \/ h[p].email = "")) =>
            /\ h[p].pc \in {"resp"}
            /\ h[p].status = 400

C13_UserRejectedStep ==
    \A p \in Procs :
        (h'[p] # h[p] /\ h'[p].fn = "create" /\ h'[p].status = 400) => svc' = svc

C13_EmptyFieldRejected ==
    /\ [](C13_TaskRejected /\ C13_UserRejected)
    /\ [][C13_UserRejectedStep]_vars

\* a POST without a title has been refused after a task was created
C13_Witness ==
    /\ tresp.fn = "create" /\ tresp.status = 400 /\ tresp.body = NoTitle
    /\ createdIDs # <<>>

\* C27: every account made by a successful NewAccount has a balance >= 0
\* after any Deposit, Withdraw and Transfer calls, whatever the amounts;
\* NewAccount with a negative initial balance returns ErrInvalidAmount and
\* makes no account.
C27_BalanceNotNegative ==
    /\ \A a \in DOMAIN accounts : accounts[a] >= 0
    /\ bres.op = "new" =>
          IF bres.amount < 0
          THEN bres.err = ErrInvalidAmount /\ accounts = bres.before
          ELSE bres.err = Nil /\ accounts = Append(bres.before, bres.amount)

\* a Transfer of more than the source holds has been refused, and an account
\* stands at 0
C27_Witness ==
    /\ bres.op = "transfer" /\ bres.err = ErrInsufficientFunds
    /\ bres.amount > bres.before[bres.a]
    /\ \E a \in DOMAIN accounts : accounts[a] = 0

\* C28: every key k of the tasks map has 1 <= k < nextID and tasks[k].ID = k
\* (inside Create, between the map write and the increment, the new key is
\* nextID itself); nextID never decreases; at its return Create has raised
\* nextID by exactly 1 and added exactly one key, Update and Delete have left
\* nextID alone and changed no entry but the one of their id.
C28_KeysBelowNextID ==
    /\ \A k \in DOMAIN tasks :
          /\ 1 <= k /\ tasks[k].ID = k
          /\ k < nextID \/ (k = nextID /\ \E p \in Procs : g[p].pc = "c3")
    /\ \A p \in Procs :
          LET others == (DOMAIN lin.tasks \cup DOMAIN tasks) \ {g[p].id}
              kept(ks) == \A k \in ks : /\ k \in DOMAIN lin.tasks /\ k \in DOMAIN tasks
                                        /\ tasks[k] = lin.tasks[k]
          IN  /\ g[p].pc = "c_ret" =>
                    /\ nextID = lin.nextID + 1
                    /\ DOMAIN tasks = DOMAIN lin.tasks \cup {lin.nextID}
                    /\ lin.nextID \notin DOMAIN lin.tasks
                    /\ kept(DOMAIN lin.tasks)
              /\ g[p].pc \in {"u_ret", "d_ret"} =>
                    /\ nextID = lin.nextID
                    /\ kept(others)

C28_NextIDGrows == nextID' >= nextID

C24_CompleteAtomic ==
    (tresp.fn = "complete" /\ tresp.status = 200) =>
        /\ tresp.id \in DOMAIN tresp.before.tasks
        /\ tresp.id \in DOMAIN tasks
        /\ tasks[tresp.id] = [tresp.before.tasks[tresp.id] EXCEPT !.Completed = TRUE]

\* C21: in Chain(m1, ..., mn)(h) the functions run in the order listed, m1
\* first and h last: what has run is a beginning of m1, ..., mn, h; once some
\* mi has returned without calling next, nothing after mi runs; Chain() of no
\* middlewares is h itself.
C21_ChainOrder ==
    mw.phase # "idle" =>
        LET listed == mw.ms \o <<RouteHandler>> IN
          /\ Len(mw.entered) <= Len(listed)
          /\ mw.entered = SubSeq(listed, 1, Len(mw.entered))
          /\ mw.stopped # 0 => Len(mw.entered) = mw.stopped /\ mw.stopped <= Len(mw.ms)
          /\ (mw.stopped = 0 /\ mw.phase \in {"done", "escaped"}) =>
                mw.entered = listed
          /\ mw.ms = <<>> => mw.handler = <<RouteHandler>>

\* CORS, listed second of three, has answered an OPTIONS request itself
C21_Witness ==
    /\ mw.phase = "done" /\ Len(mw.ms) = 3 /\ mw.stopped = 2
    /\ mw.ms[1] # mw.ms[3] /\ mw.entered = SubSeq(mw.ms, 1, 2)

\* C29: when the route handler panics under Chain(Logging, CORS, Recovery,
\* ErrorHandler), the panic does not leave the chain, the response is one
\* error response with status 500 written by ErrorHandler, Recovery sees no
\* panic, and Logging logs the request.
C29_PanicContained ==
    (mw.ms = <<"Logging", "CORS", "Recovery", "ErrorHandler">>
       /\ RouteHandler \in {mw.entered[i] : i \in DOMAIN mw.entered}
       /\ mw.req.route # "ok") =>
        /\ mw.phase # "escaped"
        /\ mw.phase = "done" =>
              /\ mw.status = 500 /\ mw.errors = 1
              /\ mw.recovered = <<"ErrorHandler">>
              /\ mw.logged

\* C22: AuthMiddleware calls the wrapped handler only for a header of exactly
\* "Bearer", one space and a token that ValidateToken accepts, and then the
\* claims in the request context are those of the token; for every other
\* header it answers 401 and nothing behind it runs.
C22_BearerOnly ==
    (mw.phase # "idle" /\ mw.handler[1] = "AuthMiddleware" /\ mw.entered # <<>>) =>
        LET accepted == \E t \in DOMAIN TokenClaims : mw.req.auth = <<"Bearer", Space, t>> IN
          IF accepted
          THEN /\ mw.claims = TokenClaims[mw.req.auth[3]]
               /\ mw.stopped # 1
               /\ mw.phase = "done" => Len(mw.entered) >= 2
          ELSE /\ mw.entered = <<"AuthMiddleware">>
               /\ mw.stopped = 1 /\ mw.status = 401 /\ mw.errors = 1
               /\ mw.claims = NoClaims

\* GetProfile runs with the claims of the user token
C22_Witness ==
    /\ mw.phase = "done" /\ mw.entered = UserRoute
    /\ mw.claims = TokenClaims["t_user"] /\ mw.status = 200

\* C23: on the admin routes GetAllUsers and UpdateUserRole run only for a
\* request whose validated token has Role "admin"; a request without claims
\* is answered 401 and one with another role 403, and then the admin handler
\* has not run and no role in the users table has changed.
C23_AdminOnly ==
    (mw.phase # "idle" /\ mw.handler \in AdminRoutes) =>
        LET ran == Len(mw.entered) = 3
            valid == \E t \in DOMAIN TokenClaims : mw.req.auth = <<"Bearer", Space, t>>
        IN  /\ ran => valid /\ TokenClaims[mw.req.auth[3]].Role = "admin"
            /\ (mw.phase = "done" /\ ~valid) => mw.status = 401 /\ ~ran /\ urole = mw.before
            /\ (mw.phase = "done" /\ valid /\ TokenClaims[mw.req.auth[3]].Role # "admin") =>
                  mw.status = 403 /\ ~ran /\ urole = mw.before

\* a user's request to change a role has been refused with 403, after an
\* admin had changed a role
C23_Witness ==
    /\ mw.phase = "done" /\ mw.handler \in AdminRoutes
    /\ mw.handler[3] = "UpdateUserRole"
    /\ mw.status = 403 /\ mw.req.auth = <<"Bearer", Space, "t_user">>
    /\ urole[2] = "guest"

\* C25: transferMoney between two distinct existing accounts with amount > 0
\* leaves the sum of their balances as it was: the debit and the credit are
\* committed together or not at all, and an account that holds less than
\* amount pays nothing to the other.
C25_SumKept ==
    LET old == txres.before
        f == txres.fromID
        t == txres.toID
    IN  (tx.pc = "idle" /\ f \in DOMAIN acct /\ t \in DOMAIN acct /\ f # t) =>
            /\ acct[f] + acct[t] = old[f] + old[t]
            /\ \/ acct = old
               \/ acct = [old EXCEPT ![f] = @ - txres.amount, ![t] = @ + txres.amount]
            /\ old[f] < txres.amount => acct[t] = old[t]


\* C26: CreatePostWithInitialComment is all-or-nothing. After it returned an
\* error (from Begin, either insert or Commit) the posts and comments tables
\* hold exactly the rows they held before the call; after it returned nil they
\* hold one new post and one new comment whose post_id is that post's id.
C26_AllOrNothing ==
    /\ (btx.pc = "idle" /\ blogres.called /\ blogres.err # Nil) =>
            (posts = blogres.posts /\ comments = blogres.comments)
    /\ (btx.pc = "idle" /\ blogres.called /\ blogres.err = Nil) =>
            /\ blogres.postID \notin blogres.posts
            /\ posts = blogres.posts \cup {blogres.postID}
            /\ \A c \in blogres.comments : c.id # blogres.commentID
            /\ comments = blogres.comments
                            \cup {[id |-> blogres.commentID, post_id |-> blogres.postID]}

\* a call failed after its post was inserted, and a later call succeeded
C26_Witness ==
    /\ btx.pc = "idle"
    /\ blogres.called
    /\ blogres.err = Nil
    /\ blogres.postID = 2
    /\ posts = {2}
    /\ comments = {[id |-> 1, post_id |-> 2]}


\* C30: after LoadTasks on a fresh TaskManager from a file whose rows have
\* pairwise distinct IDs, and any AddTask and CompleteTask calls, the tasks
\* have pairwise distinct IDs and nextID is greater than every task's ID;
\* CompleteTask(id) returns false and changes nothing when no task has that
\* id, and otherwise changes only the Completed flag of that task.
C30_DistinctBelowNextID ==
    (tm.loaded /\ tm.distinct) =>
        /\ \A i, j \in 1..Len(tm.tasks) : i # j => tm.tasks[i].ID # tm.tasks[j].ID
        /\ \A i \in 1..Len(tm.tasks) : tm.nextID > tm.tasks[i].ID
        /\ tmres.op = "CompleteTask" =>
              LET present == \E i \in 1..Len(tmres.before) : tmres.before[i].ID = tmres.id
              IN  /\ tmres.ok = present
                  /\ ~present => tm.tasks = tmres.before
                  /\ present =>
                        /\ Len(tm.tasks) = Len(tmres.before)
                        /\ \A i \in 1..Len(tm.tasks) :
                              tm.tasks[i] =
                                IF tmres.before[i].ID = tmres.id
                                THEN [tmres.before[i] EXCEPT !.Completed = TRUE]
                                ELSE tmres.before[i]

====
